---- MODULE Spec2Model ----
(***************************************************************************)
(* Unified Context and Autonomous Workflow subsystem of Wolf AI            *)
(* (src/mcp): the Context (activity log, chat history, session mapping)    *)
(* and the Autonomous Agent's status state machine.                        *)
(*                                                                         *)
(* Timestamps (datetime.now()) are left out of every record: no property   *)
(* below reads them.  Progress fractions are written in percent.           *)
(***************************************************************************)
EXTENDS Integers, Sequences, FiniteSets, TLC

VARIABLES
    activities,         \* MCPContext.activities
    chat_history,       \* MCPContext.chat_history
    session_data,       \* MCPContext.session_data
    added,              \* history: every activity handed to add_activity, in call order
    chatted,            \* history: every message handed to add_chat_message, in call order
    last,               \* history: the last operation that ran, its arguments and result
    status,             \* AutonomousAgent.status
    current_workflow,   \* AutonomousAgent.current_workflow (the workflow's name, or None)
    execution_history,  \* AutonomousAgent.execution_history
    calls,              \* the execute_workflow coroutines: where each one stands
    running,            \* the coroutine the event loop is running now (0: none)
    progress_callback,  \* AutonomousAgent.progress_callback (None, or the callback's name)
    notified,           \* what the registered progress callback was called with, in order
    instances,          \* the registered workflow objects: Workflow.params, .context_manager
    run,                \* the local variables of a concrete workflow's execute
    current_script,     \* MCPContext.current_script
    current_project,    \* MCPContext.current_project
    external,           \* core.config.session_data, the external session mapping
    sync_callbacks,     \* UnifiedContextManager.sync_callbacks
    called,             \* what the sync callbacks were called with during the last operation
    tools,              \* MCPServer.tools (the registered names)
    tool_calls          \* the execute_tool coroutines: where each one stands

contextVars == <<activities, chat_history, session_data, added, chatted>>

agentVars == <<status, current_workflow, execution_history, calls, running>>

managerVars == <<current_script, current_project, external, sync_callbacks, called>>

serverVars == <<tools, tool_calls>>

\* what no method of the agent touches, and what no method of MCPContext touches
outsideAgent == <<managerVars, serverVars, progress_callback, run>>

outsideContext == <<managerVars, serverVars, progress_callback, notified, instances, run>>

vars == <<activities, chat_history, session_data, added, chatted, last,
          status, current_workflow, execution_history, calls, running,
          progress_callback, notified, instances, run,
          current_script, current_project, external, sync_callbacks, called,
          tools, tool_calls>>

(***************************************************************************)
(* Program constants and the bounds of the model                           *)
(***************************************************************************)
MaxActivities == 100
MaxChatHistory == 50
MaxResultText == 200

MaxAdds == 103
MaxChats == 103
MaxUpdates == 2
MaxCalls == 2
MaxEvents == 5
MaxToolCalls == 2
MaxManagerEvents == 4
MaxCallbacks == 2
MaxItems == 2
MaxRuns == 102
MaxCount == 2
MaxEntries == 4

None == "None"

(***************************************************************************)
(* Sequence helpers (Python slices)                                        *)
(***************************************************************************)
\* s[-n:] for n > 0
LastN(s, n) ==
    IF Len(s) <= n THEN s ELSE SubSeq(s, Len(s) - n + 1, Len(s))

\* s[:n]
FirstN(s, n) ==
    IF Len(s) <= n THEN s ELSE SubSeq(s, 1, n)

\* the empty dict {}
EmptyDict == [k \in {} |-> None]

\* dict with one more (or one overwritten) key
WithKey(d, k, v) ==
    [x \in (DOMAIN d) \cup {k} |-> IF x = k THEN v ELSE d[x]]

\* dict without a key
WithoutKey(d, k) ==
    [x \in (DOMAIN d) \ {k} |-> d[x]]

(***************************************************************************)
(* MCPContext                                                              *)
(***************************************************************************)
\* A bug add_activity could have: the slice keeps the oldest entries.
add_activity_keep_oldest(log, activity) ==
    LET stamped == WithKey(activity, "id", Len(log))
        appended == Append(log, stamped)
    IN  IF Len(appended) > MaxActivities
        THEN FirstN(appended, MaxActivities)
        ELSE appended

\* MCPContext.add_activity: the log after the call
add_activity(log, activity) ==
    LET stamped == WithKey(activity, "id", Len(log))
        appended == Append(log, stamped)
    IN  IF Len(appended) > MaxActivities
        THEN LastN(appended, MaxActivities)
        ELSE appended

\* A bug add_chat_message could have: an off-by-one bound on the history.
chat_append_off_by_one(history, message) ==
    LET appended == Append(history, message)
    IN  IF Len(appended) >= MaxChatHistory
        THEN LastN(appended, MaxChatHistory - 1)
        ELSE appended

\* MCPContext.add_chat_message, lines 61-65: the history after the call
chat_append(history, message) ==
    LET appended == Append(history, message)
    IN  IF Len(appended) > MaxChatHistory
        THEN LastN(appended, MaxChatHistory)
        ELSE appended

\* MCPContext.add_chat_message, lines 53-59: the message built from the arguments.
\* The id is "msg_<len(chat_history)>_<seconds>"; the seconds are left out.
chat_message(history, role, content, metadata) ==
    [id |-> <<"msg", Len(history)>>, role |-> role, content |-> content,
     metadata |-> metadata]

\* MCPContext.add_chat_message, lines 68-73: the activity it logs
chat_activity(message) ==
    [type |-> "chat_message", role |-> message.role,
     content_length |-> Len(message.content), message_id |-> message.id]

(***************************************************************************)
(* Session values: a value is a scalar or a dict (isinstance(value, dict)) *)
(***************************************************************************)
Scalar(x) == [kind |-> "scalar", v |-> x, items |-> EmptyDict]

Dict(d) == [kind |-> "dict", v |-> 0, items |-> d]

IsDict(value) == value.kind = "dict"

\* A bug update_session_data could have: dict.update, a shallow merge.
shallow_merge(target, source) ==
    [k \in (DOMAIN target) \cup (DOMAIN source) |->
        IF k \in DOMAIN source THEN source[k] ELSE target[k]]

\* deep_merge(target, source) of MCPContext.update_session_data: the target after
\* the loop has run over every key of source
RECURSIVE deep_merge(_, _)
deep_merge(target, source) ==
    [key \in (DOMAIN target) \cup (DOMAIN source) |->
        IF key \notin DOMAIN source
        THEN target[key]
        ELSE IF key \in DOMAIN target /\ IsDict(target[key]) /\ IsDict(source[key])
             THEN Dict(deep_merge(target[key].items, source[key].items))
             ELSE source[key]]

\* MCPContext.update_session_data, lines 45-49: the activity it logs
\* (keys_updated is the list of data's keys, kept here as their set)
session_update_activity(data, session) ==
    [type |-> "session_update", keys_updated |-> DOMAIN data,
     session_size |-> Cardinality(DOMAIN session)]

(***************************************************************************)
(* Workflows and the agent's records                                       *)
(***************************************************************************)
Workflows == {"script_improvement", "batch_processing"}

\* Workflow.required_params, as the two concrete workflows declare them
required_params(workflow) ==
    IF workflow = "script_improvement" THEN {"script_content"}
    ELSE {"items", "operation"}

\* the calls a host makes: each workflow with its required params, and one call
\* that leaves a required param out
Requests ==
    {[workflow |-> w, params |-> [k \in required_params(w) |-> "given"]] :
        w \in Workflows}
    \cup {[workflow |-> "batch_processing", params |-> [items |-> "given"]]}

\* A bug initialize could have: it stops at the first required param it misses.
missing_params_first_only(workflow, params) ==
    LET missing == {p \in required_params(workflow) : p \notin DOMAIN params}
    IN  IF missing = {} THEN {} ELSE {CHOOSE p \in missing : TRUE}

\* Workflow.initialize, line 27: the required params that are missing
missing_params(workflow, params) ==
    {p \in required_params(workflow) : p \notin DOMAIN params}

WorkflowResult(success, data, error) ==
    [success |-> success, data |-> data, error |-> error]

\* what an abstract workflow's execute may return
WorkflowOutcomes ==
    {WorkflowResult(TRUE, "data", <<>>), WorkflowResult(FALSE, None, <<"workflow error">>)}

CallIds == 1..MaxCalls

\* an execute_workflow coroutine that has not been called yet
NewCall ==
    [pc |-> "new", workflow |-> None, params |-> EmptyDict, accepted |-> FALSE,
     result |-> None, exc |-> <<>>, ret |-> None, raised |-> FALSE]

\* AutonomousAgent._notify_progress, lines 49-54: what the registered callback gets
progress_payload(message, progress, st, workflow) ==
    [message |-> message, progress |-> progress, status |-> st, workflow |-> workflow]

\* AutonomousAgent._notify_progress, lines 57-63: the activity it logs
progress_activity(message, progress, st, workflow) ==
    [type |-> "agent_progress", message |-> message, progress |-> progress,
     status |-> st, workflow |-> workflow]

\* Workflow.__init__, lines 17-18: a workflow object as registered
NewWorkflow == [params |-> EmptyDict, context_manager |-> None]

\* no concrete workflow's execute is under way
NoRun == [pc |-> "none"]

\* core.config.session_data as the module defines it; of the settings only volume
\* and speed are kept, and of the entries the host owns alone only last_audio_file
ConfigSessionData ==
    [projects |-> Dict(EmptyDict),
     current_project |-> Scalar("default"),
     settings |-> Dict([volume |-> Scalar("80"), speed |-> Scalar("1.0")]),
     last_audio_file |-> Scalar(None),
     api_keys |-> Dict([ionos_api_key |-> Scalar(<<>>)])]

ToolCallIds == 1..MaxToolCalls

\* an execute_tool coroutine that has not been called yet
NewToolCall ==
    [pc |-> "new", tool |-> None, result |-> <<>>, exc |-> <<>>, ret |-> <<>>,
     raised |-> <<>>]

(***************************************************************************)
(* Initial state: MCPContext.__init__, AutonomousAgent.__init__,           *)
(* MCPServer.__init__ and the module core.config                           *)
(***************************************************************************)
Init ==
    /\ activities = <<>>
    /\ chat_history = <<>>
    /\ session_data = EmptyDict
    /\ added = <<>>
    /\ chatted = <<>>
    /\ last = [op |-> "init"]
    /\ status = "idle"
    /\ current_workflow = None
    /\ execution_history = <<>>
    /\ calls = [c \in CallIds |-> NewCall]
    /\ running = 0
    /\ progress_callback = None
    /\ notified = <<>>
    /\ instances = [w \in Workflows |-> NewWorkflow]
    /\ run = NoRun
    /\ current_script = <<>>
    /\ current_project = ""
    /\ external = ConfigSessionData
    /\ sync_callbacks = <<>>
    /\ called = <<>>
    /\ tools = {}
    /\ tool_calls = [t \in ToolCallIds |-> NewToolCall]

(***************************************************************************)
(* Operations on the Context                                               *)
(***************************************************************************)
\* add_activity called directly; the n-th call carries the tag n
AddActivity ==
    /\ UNCHANGED outsideContext
    /\ Len(added) < MaxAdds
    /\ LET activity == [type |-> "custom", tag |-> Len(added) + 1]
       IN  /\ activities' = add_activity(activities, activity)
           /\ added' = Append(added, activity)
           /\ last' = [op |-> "add_activity"]
    /\ UNCHANGED <<chat_history, session_data, chatted>>
    /\ UNCHANGED agentVars

\* the role of the n-th message of a conversation
RoleOf(n) == IF n % 2 = 1 THEN "user" ELSE "assistant"

\* the content of the n-th message: one to three characters
ContentOf(n) == [i \in 1..((n % 3) + 1) |-> "x"]

\* add_chat_message(role, content, metadata)
AddChatMessage ==
    /\ UNCHANGED outsideContext
    /\ Len(chatted) < MaxChats
    /\ LET n == Len(chatted) + 1
           message == chat_message(chat_history, RoleOf(n), ContentOf(n), [turn |-> n])
           activity == chat_activity(message)
       IN  /\ chat_history' = chat_append(chat_history, message)
           /\ chatted' = Append(chatted, message)
           /\ activities' = add_activity(activities, activity)
           /\ added' = Append(added, activity)
           /\ last' = [op |-> "add_chat_message"]
    /\ UNCHANGED <<session_data>>
    /\ UNCHANGED agentVars

(***************************************************************************)
(* The session mappings update_session_data is called with: three levels   *)
(* of nesting, scalars and dicts at the two upper levels                   *)
(***************************************************************************)
ScalarValues == {Scalar(50), Scalar(15)}

\* every dict with keys among `keys` and values among `values`
DictsOver(keys, values) ==
    UNION {[d -> values] : d \in SUBSET keys}

LeafDicts == DictsOver({"level"}, ScalarValues)

SettingsDicts ==
    DictsOver({"volume", "speed"}, ScalarValues \cup {Dict(d) : d \in LeafDicts})

Partials ==
    {p \in DictsOver({"settings", "current_project"},
                     ScalarValues \cup {Dict(d) : d \in SettingsDicts}) :
        "current_project" \in DOMAIN p => p["current_project"] = Scalar(15)}

\* update_session_data(data)
UpdateSessionData ==
    /\ UNCHANGED outsideContext
    /\ Len(added) < MaxUpdates
    /\ \E data \in Partials :
        LET merged == deep_merge(session_data, data)
            activity == session_update_activity(data, merged)
        IN  /\ session_data' = merged
            /\ activities' = add_activity(activities, activity)
            /\ added' = Append(added, activity)
            /\ last' = [op |-> "update_session_data", data |-> data]
    /\ UNCHANGED <<chat_history, chatted>>
    /\ UNCHANGED agentVars

(***************************************************************************)
(* UnifiedContextManager.  A text is a sequence of characters.  The nested *)
(* dicts of the mirror are the very objects of the external mapping:       *)
(* _sync_from_session_data stores them by reference and deep_merge and     *)
(* _sync_to_session_data keep them, so a change made in place to one is a  *)
(* change to both.                                                         *)
(***************************************************************************)
\* bool(text): the text is not empty
Truthy(text) == text # <<>>

\* bool(text.strip()): the text holds a character that is not white space
HasContent(text) == \E i \in 1..Len(text) : text[i] # " "

\* len(text.split()): the number of words
WordCount(text) ==
    Cardinality({i \in 1..Len(text) : text[i] # " " /\ (i = 1 \/ text[i - 1] = " ")})

\* session.get(key, {}): the entries of a nested dict of the mapping
Get(session, key) ==
    IF key \in DOMAIN session THEN session[key].items ELSE EmptyDict

\* a nested dict changed in place: the mapping holds the changed object, when it
\* holds the object at all (a {} made by get's default is not in the mapping)
in_place(session, key, items) ==
    IF key \in DOMAIN session THEN WithKey(session, key, Dict(items)) ELSE session

\* the log after add_activity has been called with each of acts, in order
RECURSIVE log_all(_, _)
log_all(log, acts) ==
    IF acts = <<>> THEN log
    ELSE log_all(add_activity(log, Head(acts)), Tail(acts))

\* MCPContext.set_current_script, lines 81-86: the activity it logs
script_activity(old, script) ==
    [type |-> "script_update", old_length |-> Len(old), new_length |-> Len(script),
     change_type |-> IF Len(old) > 0 THEN "edit" ELSE "create"]

\* MCPContext.set_current_project, lines 94-98: the activity it logs
project_activity(old, project) ==
    [type |-> "project_change", old_project |-> old, new_project |-> project]

\* _sync_to_session_data, lines 35-40: the external mapping after the copy
synced_mapping(session, project, ext) ==
    LET copied == [k \in (DOMAIN ext) \cup (DOMAIN session) |->
                      IF k \in DOMAIN session THEN session[k] ELSE ext[k]]
    IN  IF project # ""
        THEN WithKey(copied, "current_project", Scalar(project))
        ELSE copied

\* the callbacks up to and with the first one that raises
UpToFirstRaise(callbacks) ==
    IF \E i \in 1..Len(callbacks) : callbacks[i].raises
    THEN SubSeq(callbacks, 1,
                CHOOSE i \in 1..Len(callbacks) :
                    /\ callbacks[i].raises
                    /\ \A j \in 1..(i - 1) : ~callbacks[j].raises)
    ELSE callbacks

\* A bug _sync_to_session_data could have: no try around the callback.
sync_without_try(session, project, ext, callbacks) ==
    LET mapping == synced_mapping(session, project, ext)
        reached == UpToFirstRaise(callbacks)
    IN  [external |-> mapping,
         called |-> [i \in 1..Len(reached) |-> [callback |-> reached[i].name,
                                                 data |-> mapping]],
         raised |-> Len(reached) > 0 /\ reached[Len(reached)].raises]

\* _sync_to_session_data: the external mapping after it, what each callback was
\* called with, and whether an exception leaves it
sync_to_session_data(session, project, ext, callbacks) ==
    LET mapping == synced_mapping(session, project, ext)
    IN  [external |-> mapping,
         called |-> [i \in 1..Len(callbacks) |-> [callback |-> callbacks[i].name,
                                                   data |-> mapping]],
         raised |-> FALSE]

\* a method that does not call _sync_to_session_data
NoSync == [external |-> external, called |-> <<>>, raised |-> FALSE]

\* get_session_summary
get_session_summary ==
    [current_project |-> current_project,
     script_length |-> Len(current_script),
     total_projects |-> Cardinality(DOMAIN Get(session_data, "projects")),
     chat_messages |-> Len(chat_history),
     activities |-> Len(activities),
     api_keys_configured |-> DOMAIN Get(session_data, "api_keys"),
     last_activity |-> IF activities # <<>> THEN activities[Len(activities)] ELSE [type |-> None]]

\* what the manager's methods are called with
ProjectNames == {"default", "demo"}

ProjectData == {[notes |-> Scalar(<<"n">>)]}

Scripts == {<<>>, <<" ">>, <<"a", " ", "b">>}

SettingsUpdates == {[volume |-> Scalar("50")], [pitch |-> Scalar("0")]}

Services == {"ionos", "openai"}

ApiKeys == {<<" ">>, <<"k">>, <<"s">>}

\* f"{service}_api_key"
ApiKeyName(service) == IF service = "ionos" THEN "ionos_api_key" ELSE "openai_api_key"

\* the log of the model has room for n more activities
ManagerRoom(n) == Len(added) + n <= MaxManagerEvents

\* what a manager method leaves alone
outsideManager ==
    <<agentVars, serverVars, progress_callback, notified, instances, run, sync_callbacks>>

\* register_sync_callback, called while the host starts (integration.py, line 28):
\* the n-th callback registered is named n; it raises on every call or on none
RegisterSyncCallback ==
    /\ last.op \in {"init", "register_sync_callback"}
    /\ Len(sync_callbacks) < MaxCallbacks
    /\ \E raises \in BOOLEAN :
        sync_callbacks' = Append(sync_callbacks,
                                 [name |-> Len(sync_callbacks) + 1, raises |-> raises])
    /\ last' = [op |-> "register_sync_callback"]
    /\ UNCHANGED <<contextVars, agentVars, serverVars, progress_callback, notified,
                   instances, run, current_script, current_project, external, called>>

\* update_project(project_name, project_data)
UpdateProject ==
    /\ ManagerRoom(2)
    /\ \E name \in ProjectNames, data \in ProjectData :
        LET projects == WithKey(Get(session_data, "projects"), name, Dict(data))
            merged == deep_merge(in_place(session_data, "projects", projects),
                                 [projects |-> Dict(projects)])
            sync == sync_to_session_data(merged, current_project, external, sync_callbacks)
            logged == <<session_update_activity([projects |-> Dict(projects)], merged),
                        [type |-> "project_update", project_name |-> name,
                         data_keys |-> DOMAIN data]>>
        IN  /\ session_data' = merged
            /\ external' = sync.external
            /\ called' = sync.called
            /\ activities' = log_all(activities, logged)
            /\ added' = added \o logged
            /\ last' = [op |-> "update_project", syncs |-> 1, raised |-> sync.raised,
                        name |-> name]
    /\ UNCHANGED <<chat_history, chatted, current_script, current_project>>
    /\ UNCHANGED outsideManager

\* A bug set_current_project could have: the sync comes before the change.
SetCurrentProjectSyncsFirst ==
    /\ ManagerRoom(1)
    /\ \E name \in ProjectNames \cup {""} :
        LET sync == sync_to_session_data(session_data, current_project, external,
                                         sync_callbacks)
            logged == <<project_activity(current_project, name)>>
        IN  /\ current_project' = name
            /\ external' = sync.external
            /\ called' = sync.called
            /\ activities' = log_all(activities, logged)
            /\ added' = added \o logged
            /\ last' = [op |-> "set_current_project", syncs |-> 1, raised |-> sync.raised,
                        name |-> name]
    /\ UNCHANGED <<chat_history, chatted, session_data, current_script>>
    /\ UNCHANGED outsideManager

\* set_current_project(project_name)
SetCurrentProject ==
    /\ ManagerRoom(1)
    /\ \E name \in ProjectNames \cup {""} :
        LET sync == sync_to_session_data(session_data, name, external, sync_callbacks)
            logged == <<project_activity(current_project, name)>>
        IN  /\ current_project' = name
            /\ external' = sync.external
            /\ called' = sync.called
            /\ activities' = log_all(activities, logged)
            /\ added' = added \o logged
            /\ last' = [op |-> "set_current_project", syncs |-> 1, raised |-> sync.raised,
                        name |-> name]
    /\ UNCHANGED <<chat_history, chatted, session_data, current_script>>
    /\ UNCHANGED outsideManager

\* A bug update_script could have: only the pointer of the Context is set.
update_script_pointer_only(content) ==
    LET logged == <<script_activity(current_script, content)>>
    IN  /\ current_script' = content
        /\ session_data' = session_data
        /\ external' = NoSync.external
        /\ called' = NoSync.called
        /\ activities' = log_all(activities, logged)
        /\ added' = added \o logged
        /\ last' = [op |-> "update_script", syncs |-> 0, raised |-> FALSE,
                    content |-> content]

\* update_script(script_content), but for what it leaves alone: the new script,
\* mapping and log, the sync and the number of syncs
update_script(content) ==
    LET projects == Get(session_data, "projects")
        stored == current_project # "" /\ current_project \in DOMAIN projects
        project == [k \in (DOMAIN projects[current_project].items)
                              \cup {"script", "word_count", "character_count"} |->
                      CASE k = "script" -> Scalar(content)
                        [] k = "word_count" -> Scalar(WordCount(content))
                        [] k = "character_count" -> Scalar(Len(content))
                        [] OTHER -> projects[current_project].items[k]]
        changed == WithKey(projects, current_project, Dict(project))
        merged == IF stored
                  THEN deep_merge(in_place(session_data, "projects", changed),
                                  [projects |-> Dict(changed)])
                  ELSE session_data
        sync == IF stored
                THEN sync_to_session_data(merged, current_project, external, sync_callbacks)
                ELSE NoSync
        logged == <<script_activity(current_script, content)>>
                  \o IF stored
                     THEN <<session_update_activity([projects |-> Dict(changed)], merged)>>
                     ELSE <<>>
    IN  /\ current_script' = content
        /\ session_data' = merged
        /\ external' = sync.external
        /\ called' = sync.called
        /\ activities' = log_all(activities, logged)
        /\ added' = added \o logged
        /\ last' = [op |-> "update_script", syncs |-> IF stored THEN 1 ELSE 0,
                    raised |-> sync.raised, content |-> content]

\* update_script(script_content) called by the host
UpdateScript ==
    /\ ManagerRoom(2)
    /\ \E content \in Scripts : update_script(content)
    /\ UNCHANGED <<chat_history, chatted, current_project>>
    /\ UNCHANGED outsideManager

\* add_chat_message, lines 92-102: the metadata built for the message
chat_metadata(script_context) ==
    LET about == [current_project |-> current_project,
                  session_state |-> get_session_summary]
    IN  IF Truthy(script_context)
        THEN [k \in {"script_context", "current_project", "session_state"} |->
                IF k = "script_context"
                THEN [length |-> Len(script_context),
                      word_count |-> WordCount(script_context),
                      has_content |-> HasContent(script_context)]
                ELSE about[k]]
        ELSE about

\* add_chat_message(role, content, script_context) of the manager
ManagerAddChatMessage ==
    /\ ManagerRoom(1)
    /\ \E script_context \in {<<>>, <<"a">>} :
        LET message == chat_message(chat_history, RoleOf(Len(chatted) + 1), <<"h", "i">>,
                                    chat_metadata(script_context))
            logged == <<chat_activity(message)>>
        IN  /\ chat_history' = chat_append(chat_history, message)
            /\ chatted' = Append(chatted, message)
            /\ activities' = log_all(activities, logged)
            /\ added' = added \o logged
            /\ called' = NoSync.called
            /\ last' = [op |-> "add_chat_message", syncs |-> 0, raised |-> FALSE]
    /\ UNCHANGED <<session_data, current_script, current_project, external>>
    /\ UNCHANGED outsideManager

\* update_settings(settings)
UpdateSettings ==
    /\ ManagerRoom(1)
    /\ \E settings \in SettingsUpdates :
        LET current_settings == shallow_merge(Get(session_data, "settings"), settings)
            merged == deep_merge(in_place(session_data, "settings", current_settings),
                                 [settings |-> Dict(current_settings)])
            sync == sync_to_session_data(merged, current_project, external, sync_callbacks)
            logged == <<session_update_activity([settings |-> Dict(current_settings)],
                                                merged)>>
        IN  /\ session_data' = merged
            /\ external' = sync.external
            /\ called' = sync.called
            /\ activities' = log_all(activities, logged)
            /\ added' = added \o logged
            /\ last' = [op |-> "update_settings", syncs |-> 1, raised |-> sync.raised]
    /\ UNCHANGED <<chat_history, chatted, current_script, current_project>>
    /\ UNCHANGED outsideManager

\* A bug set_api_key could have: the key is put into the activity.
api_key_activity_with_key(service, api_key) ==
    [type |-> "api_key_update", service |-> service, key_length |-> Len(api_key),
     is_set |-> HasContent(api_key), key |-> api_key]

\* set_api_key, lines 123-128: the activity it logs
api_key_activity(service, api_key) ==
    [type |-> "api_key_update", service |-> service, key_length |-> Len(api_key),
     is_set |-> HasContent(api_key)]

\* set_api_key, lines 116-119: the mirror after the call
api_keys_merged(session, service, api_key) ==
    LET api_keys == WithKey(Get(session, "api_keys"), ApiKeyName(service), Scalar(api_key))
    IN  deep_merge(in_place(session, "api_keys", api_keys), [api_keys |-> Dict(api_keys)])

\* set_api_key: the activities it hands to add_activity, in order
api_key_activities(session, service, api_key) ==
    LET merged == api_keys_merged(session, service, api_key)
    IN  <<session_update_activity([api_keys |-> merged["api_keys"]], merged),
          api_key_activity(service, api_key)>>

\* set_api_key(service, api_key)
SetApiKey ==
    /\ ManagerRoom(2)
    /\ \E service \in Services, api_key \in ApiKeys :
        LET merged == api_keys_merged(session_data, service, api_key)
            sync == sync_to_session_data(merged, current_project, external, sync_callbacks)
            logged == api_key_activities(session_data, service, api_key)
        IN  /\ session_data' = merged
            /\ external' = sync.external
            /\ called' = sync.called
            /\ activities' = log_all(activities, logged)
            /\ added' = added \o logged
            /\ last' = [op |-> "set_api_key", syncs |-> 1, raised |-> sync.raised,
                        service |-> service, api_key |-> api_key]
    /\ UNCHANGED <<chat_history, chatted, current_script, current_project>>
    /\ UNCHANGED outsideManager

\* A bug export_context could have: the export is logged as an activity.
ExportContextLogged ==
    /\ LET logged == <<[type |-> "context_export"]>>
       IN  /\ activities' = log_all(activities, logged)
           /\ added' = added \o logged
    /\ last' = [op |-> "export_context",
                snapshot |-> [session_data |-> session_data,
                              chat_history |-> chat_history,
                              activities |-> activities,
                              current_state |-> [project |-> current_project,
                                                 script |-> current_script]],
                session_summary |-> get_session_summary]
    /\ UNCHANGED <<chat_history, session_data, chatted, managerVars, agentVars, serverVars,
                   progress_callback, notified, instances, run>>

\* export_context of the manager, and through it MCPContext.export_context,
\* get_session_summary and get_context_for_ai, which read and log nothing
ExportContext ==
    /\ last' = [op |-> "export_context",
                snapshot |-> [session_data |-> session_data,
                              chat_history |-> chat_history,
                              activities |-> activities,
                              current_state |-> [project |-> current_project,
                                                 script |-> current_script]],
                session_summary |-> get_session_summary]
    /\ UNCHANGED <<contextVars, managerVars, agentVars, serverVars, progress_callback,
                   notified, instances, run>>

\* the host loads a project (services/project_service.py, load_project): it sets
\* session_data["current_project"] itself
HostSetsCurrentProject ==
    /\ running = 0
    /\ \E name \in ProjectNames :
        /\ name \in DOMAIN Get(external, "projects")
        /\ external["current_project"] # Scalar(name)
        /\ external' = WithKey(external, "current_project", Scalar(name))
    /\ last' = [op |-> "host"]
    /\ UNCHANGED <<contextVars, agentVars, serverVars, progress_callback, notified,
                   instances, run, current_script, current_project, sync_callbacks,
                   called>>

\* the host creates a project in session_data["projects"] itself
\* (services/project_service.py, initialize_sample_scripts): the dict it changes is
\* the mirror's too
HostCreatesProject ==
    /\ running = 0
    /\ "projects" \in DOMAIN session_data
    /\ \E name \in ProjectNames :
        /\ name \notin DOMAIN Get(external, "projects")
        /\ LET projects == WithKey(Get(external, "projects"), name,
                                   Dict([script |-> Scalar(<<>>)]))
           IN  /\ external' = WithKey(external, "projects", Dict(projects))
               /\ session_data' = WithKey(session_data, "projects", Dict(projects))
    /\ last' = [op |-> "host"]
    /\ UNCHANGED <<activities, chat_history, added, chatted>>
    /\ UNCHANGED <<agentVars, serverVars, progress_callback, notified, instances, run,
                   current_script, current_project, sync_callbacks, called>>

NextManager ==
    \/ RegisterSyncCallback
    \/ UpdateProject
    \/ SetCurrentProject
    \/ UpdateScript
    \/ ManagerAddChatMessage
    \/ UpdateSettings
    \/ SetApiKey
    \/ ExportContext
    \/ HostSetsCurrentProject
    \/ HostCreatesProject

\* UnifiedContextManager.__init__: _sync_from_session_data on a new MCPContext
InitManager ==
    LET merged == deep_merge(EmptyDict, ConfigSessionData)
        project == ConfigSessionData["current_project"].v
        logged == <<session_update_activity(ConfigSessionData, merged)>>
                  \o IF project # "" THEN <<project_activity("", project)>> ELSE <<>>
    IN  /\ activities = log_all(<<>>, logged)
        /\ added = logged
        /\ chat_history = <<>>
        /\ chatted = <<>>
        /\ session_data = merged
        /\ current_script = <<>>
        /\ current_project = project
        /\ external = ConfigSessionData
        /\ sync_callbacks = <<>>
        /\ called = <<>>
        /\ last = [op |-> "init"]
        /\ status = "idle"
        /\ current_workflow = None
        /\ execution_history = <<>>
        /\ calls = [c \in CallIds |-> NewCall]
        /\ running = 0
        /\ progress_callback = None
        /\ notified = <<>>
        /\ instances = [w \in Workflows |-> NewWorkflow]
        /\ run = NoRun
        /\ tools = {}
        /\ tool_calls = [t \in ToolCallIds |-> NewToolCall]

(***************************************************************************)
(* MCPServer.  execute_tool is a coroutine: it is suspended while the      *)
(* tool's execute awaits, and another execute_tool may run meanwhile.      *)
(***************************************************************************)
ToolNames == {"tts", "ai"}

\* the names execute_tool is called with: the tools, and a name never registered
ToolRequests == ToolNames \cup {"unknown"}

\* the text of n characters
Text(n) == [i \in 1..n |-> "r"]

\* str(result) of what a tool may return: short, of 200 characters, and longer
ToolResults == {Text(2), Text(MaxResultText), Text(MaxResultText + 1)}

\* A bug execute_tool could have: the result is cut and nothing marks the cut.
result_text_cut(result) ==
    IF Len(result) > MaxResultText
    THEN SubSeq(result, 1, MaxResultText)
    ELSE result

\* execute_tool, line 70: the result as the tool_result activity shows it
result_text(result) ==
    IF Len(result) > MaxResultText
    THEN SubSeq(result, 1, MaxResultText) \o <<".", ".", ".">>
    ELSE result

\* what a server method leaves alone
outsideServer ==
    <<chat_history, session_data, chatted, agentVars, managerVars, progress_callback,
      notified, instances, run>>

\* register_tool(tool)
RegisterTool ==
    /\ \E name \in ToolNames :
        /\ name \notin tools
        /\ tools' = tools \cup {name}
    /\ last' = [op |-> "register_tool"]
    /\ UNCHANGED <<activities, added, tool_calls>>
    /\ UNCHANGED outsideServer

\* execute_tool, lines 50-61: the lookup, and the tool_execution activity
ExecuteTool(t) ==
    /\ tool_calls[t].pc = "new"
    /\ \A u \in ToolCallIds : u < t => tool_calls[u].pc # "new"
    /\ \E name \in ToolRequests :
        IF name \notin tools
        THEN /\ tool_calls' = [tool_calls EXCEPT ![t] = [@ EXCEPT !.pc = "done",
                                  !.tool = name, !.raised = <<"Tool not found", name>>]]
             /\ UNCHANGED <<activities, added>>
        ELSE LET logged == <<[type |-> "tool_execution", tool |-> name,
                              parameters |-> [text |-> "hi"]]>>
             IN  /\ tool_calls' = [tool_calls EXCEPT ![t] = [@ EXCEPT !.pc = "executing",
                                      !.tool = name]]
                 /\ activities' = log_all(activities, logged)
                 /\ added' = added \o logged
    /\ last' = [op |-> "execute_tool", call |-> t]
    /\ UNCHANGED tools
    /\ UNCHANGED outsideServer

\* A bug execute_tool could have: the error is logged and swallowed.
ToolEndsSwallowing(t) ==
    /\ tool_calls[t].pc = "executing"
    /\ \E raises \in BOOLEAN :
        IF raises
        THEN LET logged == <<[type |-> "tool_error", tool |-> tool_calls[t].tool,
                              error |-> <<"tool failed">>]>>
             IN  /\ tool_calls' = [tool_calls EXCEPT ![t] = [@ EXCEPT !.pc = "done",
                                      !.exc = <<"tool failed">>]]
                 /\ activities' = log_all(activities, logged)
                 /\ added' = added \o logged
        ELSE \E result \in ToolResults :
             LET logged == <<[type |-> "tool_result", tool |-> tool_calls[t].tool,
                              result |-> result_text(result)]>>
             IN  /\ tool_calls' = [tool_calls EXCEPT ![t] = [@ EXCEPT !.pc = "done",
                                      !.result = result, !.ret = result]]
                 /\ activities' = log_all(activities, logged)
                 /\ added' = added \o logged
    /\ last' = [op |-> "execute_tool", call |-> t]
    /\ UNCHANGED tools
    /\ UNCHANGED outsideServer

\* execute_tool, lines 63-83: the tool's execute returns and the tool_result
\* activity is logged, or it raises and the tool_error activity is logged
ToolEnds(t) ==
    /\ tool_calls[t].pc = "executing"
    /\ \E raises \in BOOLEAN :
        IF raises
        THEN LET logged == <<[type |-> "tool_error", tool |-> tool_calls[t].tool,
                              error |-> <<"tool failed">>]>>
             IN  /\ tool_calls' = [tool_calls EXCEPT ![t] = [@ EXCEPT !.pc = "done",
                                      !.exc = <<"tool failed">>,
                                      !.raised = <<"tool failed">>]]
                 /\ activities' = log_all(activities, logged)
                 /\ added' = added \o logged
        ELSE \E result \in ToolResults :
             LET logged == <<[type |-> "tool_result", tool |-> tool_calls[t].tool,
                              result |-> result_text(result)]>>
             IN  /\ tool_calls' = [tool_calls EXCEPT ![t] = [@ EXCEPT !.pc = "done",
                                      !.result = result, !.ret = result]]
                 /\ activities' = log_all(activities, logged)
                 /\ added' = added \o logged
    /\ last' = [op |-> "execute_tool", call |-> t]
    /\ UNCHANGED tools
    /\ UNCHANGED outsideServer

NextServer ==
    \/ RegisterTool
    \/ \E t \in ToolCallIds : ExecuteTool(t) \/ ToolEnds(t)

(***************************************************************************)
(* AutonomousAgent.  execute_workflow is a coroutine: the event loop runs  *)
(* one coroutine at a time (running), and another coroutine or a           *)
(* pause/resume/stop request gets in only while the workflow's execute is  *)
(* suspended at an await.  Each step below holds one assignment to status. *)
(***************************************************************************)
NoError == <<>>

\* the accepted calls that have their completion or error notification still to come
Pending ==
    {c \in CallIds : calls[c].pc \in {"initialize", "execute", "suspended", "returned",
                                       "except"}}

\* the log of the model has room for n more notifications, beside those to come
Room(n) == Len(added) + Cardinality(Pending) + n <= MaxEvents

\* _notify_progress: the activity logged with the status and workflow of the moment
notify_progress(message, progress, st, workflow) ==
    LET activity == progress_activity(message, progress, st, workflow)
    IN  /\ notified' = IF progress_callback # None
                       THEN Append(notified, progress_payload(message, progress, st, workflow))
                       ELSE notified
        /\ activities' = add_activity(activities, activity)
        /\ added' = Append(added, activity)

\* A bug execute_workflow could have: the busy check is missing.
ExecuteWorkflowUnchecked(c) ==
    /\ UNCHANGED <<outsideAgent, instances>>
    /\ running = 0
    /\ calls[c].pc = "new"
    /\ \A d \in CallIds : d < c => calls[d].pc # "new"
    /\ \E request \in Requests :
        /\ Room(2)
        /\ status' = "planning"
        /\ current_workflow' = request.workflow
        /\ notify_progress(<<"Starting workflow", request.workflow>>, 0, "planning",
                           request.workflow)
        /\ calls' = [calls EXCEPT ![c] = [@ EXCEPT !.pc = "initialize",
                        !.workflow = request.workflow, !.params = request.params,
                        !.accepted = TRUE]]
        /\ running' = c
    /\ last' = [op |-> "execute_workflow", call |-> c]
    /\ UNCHANGED <<chat_history, session_data, chatted, execution_history>>

\* execute_workflow(workflow, params), lines 67-76: the busy check, then Planning and
\* the start notification
execute_workflow(c, request) ==
    /\ UNCHANGED <<outsideAgent, instances>>
    /\ running = 0
    /\ calls[c].pc = "new"
    /\ \A d \in CallIds : d < c => calls[d].pc # "new"
    /\ IF status # "idle"
       THEN /\ calls' = [calls EXCEPT ![c] = [@ EXCEPT !.pc = "done",
                           !.workflow = request.workflow, !.params = request.params,
                           !.ret = WorkflowResult(FALSE, None, <<"Agent is busy">>)]]
            /\ UNCHANGED <<status, current_workflow, running, activities, added, notified>>
       ELSE /\ Room(2)
            /\ status' = "planning"
            /\ current_workflow' = request.workflow
            /\ notify_progress(<<"Starting workflow", request.workflow>>, 0, "planning",
                               request.workflow)
            /\ calls' = [calls EXCEPT ![c] = [@ EXCEPT !.pc = "initialize",
                           !.workflow = request.workflow, !.params = request.params,
                           !.accepted = TRUE]]
            /\ running' = c
    /\ last' = [op |-> "execute_workflow", call |-> c]
    /\ UNCHANGED <<chat_history, session_data, chatted, execution_history>>

\* execute_workflow called with a workflow whose execute is left open
ExecuteWorkflow(c) ==
    \E request \in Requests : execute_workflow(c, request)

\* execute_workflow, lines 77-80: workflow.initialize (which has no await of its
\* own), then Executing
Initialize(c) ==
    /\ UNCHANGED outsideAgent
    /\ running = c
    /\ calls[c].pc = "initialize"
    /\ LET missing == missing_params(calls[c].workflow, calls[c].params)
       IN  IF missing # {}
           THEN /\ calls' = [calls EXCEPT ![c] = [@ EXCEPT !.pc = "except",
                               !.exc = <<"Missing required parameters", missing>>]]
                /\ UNCHANGED status
           ELSE /\ calls' = [calls EXCEPT ![c].pc = "execute"]
                /\ status' = "executing"
    /\ instances' = [instances EXCEPT ![calls[c].workflow] =
                        [params |-> calls[c].params, context_manager |-> "context_manager"]]
    /\ last' = [op |-> "execute_workflow", call |-> c]
    /\ UNCHANGED <<contextVars, notified, current_workflow, execution_history, running>>

\* execute_workflow, line 81: workflow.execute reaches an await and is suspended;
\* the event loop is free for another coroutine or a pause/resume/stop request
WorkflowAwaits(c) ==
    /\ UNCHANGED <<outsideAgent, instances>>
    /\ running = c
    /\ calls[c].pc = "execute"
    /\ calls' = [calls EXCEPT ![c].pc = "suspended"]
    /\ running' = 0
    /\ last' = [op |-> "execute_workflow", call |-> c]
    /\ UNCHANGED <<contextVars, notified, status, current_workflow, execution_history>>

\* execute_workflow, line 81: what workflow.execute awaited is there, and it goes
\* on, reporting its progress through the callback it was given or not
WorkflowResumes(c) ==
    /\ UNCHANGED <<outsideAgent, instances>>
    /\ running = 0
    /\ calls[c].pc = "suspended"
    /\ \E reports \in BOOLEAN :
        IF reports
        THEN /\ Room(1)
             /\ notify_progress(<<"Working">>, 50, status, current_workflow)
        ELSE UNCHANGED <<activities, added, notified>>
    /\ calls' = [calls EXCEPT ![c].pc = "execute"]
    /\ running' = c
    /\ last' = [op |-> "execute_workflow", call |-> c]
    /\ UNCHANGED <<chat_history, session_data, chatted, status, current_workflow,
                   execution_history>>

\* execute_workflow, line 81: workflow.execute returns a WorkflowResult or raises
WorkflowEnds(c) ==
    /\ UNCHANGED <<outsideAgent, instances>>
    /\ running = c
    /\ calls[c].pc = "execute"
    /\ \E raises \in BOOLEAN :
        IF raises
        THEN calls' = [calls EXCEPT ![c] = [@ EXCEPT !.pc = "except",
                          !.exc = <<"boom">>]]
        ELSE \E result \in WorkflowOutcomes :
                calls' = [calls EXCEPT ![c] = [@ EXCEPT !.pc = "returned",
                             !.result = result]]
    /\ last' = [op |-> "execute_workflow", call |-> c]
    /\ UNCHANGED <<contextVars, notified, status, current_workflow, execution_history, running>>

\* A bug execute_workflow could have: only successful results get a history entry.
CompleteLogsSuccessOnly(c) ==
    /\ UNCHANGED <<outsideAgent, instances>>
    /\ running = c
    /\ calls[c].pc = "returned"
    /\ status' = "completed"
    /\ notify_progress(<<"Workflow completed", calls[c].workflow>>, 100, "completed",
                       current_workflow)
    /\ execution_history' =
            IF calls[c].result.success
            THEN Append(execution_history,
                        [workflow |-> calls[c].workflow, params |-> calls[c].params,
                         result |-> calls[c].result.success,
                         error |-> calls[c].result.error])
            ELSE execution_history
    /\ calls' = [calls EXCEPT ![c] = [@ EXCEPT !.pc = "finally", !.ret = calls[c].result]]
    /\ last' = [op |-> "execute_workflow", call |-> c]
    /\ UNCHANGED <<chat_history, session_data, chatted, current_workflow, running>>

\* execute_workflow, lines 84-96: Completed, the completion notification, the
\* history entry, the result to return
Complete(c) ==
    /\ UNCHANGED <<outsideAgent, instances>>
    /\ running = c
    /\ calls[c].pc = "returned"
    /\ status' = "completed"
    /\ notify_progress(<<"Workflow completed", calls[c].workflow>>, 100, "completed",
                       current_workflow)
    /\ execution_history' = Append(execution_history,
            [workflow |-> calls[c].workflow, params |-> calls[c].params,
             result |-> calls[c].result.success, error |-> calls[c].result.error])
    /\ calls' = [calls EXCEPT ![c] = [@ EXCEPT !.pc = "finally", !.ret = calls[c].result]]
    /\ last' = [op |-> "execute_workflow", call |-> c]
    /\ UNCHANGED <<chat_history, session_data, chatted, current_workflow, running>>

\* A bug the handler could have: the error is logged and raised again.
ExceptReraises(c) ==
    /\ UNCHANGED <<outsideAgent, instances>>
    /\ running = c
    /\ calls[c].pc = "except"
    /\ status' = "error"
    /\ notify_progress(<<"Workflow failed", calls[c].exc>>, 0, "error", current_workflow)
    /\ calls' = [calls EXCEPT ![c] = [@ EXCEPT !.pc = "finally", !.raised = TRUE]]
    /\ last' = [op |-> "execute_workflow", call |-> c]
    /\ UNCHANGED <<chat_history, session_data, chatted, current_workflow,
                   execution_history, running>>

\* execute_workflow, lines 98-103: Error, the error notification, the failed result
Except(c) ==
    /\ UNCHANGED <<outsideAgent, instances>>
    /\ running = c
    /\ calls[c].pc = "except"
    /\ status' = "error"
    /\ notify_progress(<<"Workflow failed", calls[c].exc>>, 0, "error", current_workflow)
    /\ calls' = [calls EXCEPT ![c] = [@ EXCEPT !.pc = "finally",
                    !.ret = WorkflowResult(FALSE, None, <<"Workflow failed", calls[c].exc>>)]]
    /\ last' = [op |-> "execute_workflow", call |-> c]
    /\ UNCHANGED <<chat_history, session_data, chatted, current_workflow,
                   execution_history, running>>

\* A bug the cleanup could have: the reset is skipped after an error.
FinallyOnlyOnSuccess(c) ==
    /\ UNCHANGED <<outsideAgent, instances>>
    /\ running = c
    /\ calls[c].pc = "finally"
    /\ IF calls[c].exc = <<>>
       THEN current_workflow' = None /\ status' = "idle"
       ELSE UNCHANGED <<current_workflow, status>>
    /\ calls' = [calls EXCEPT ![c].pc = "done"]
    /\ running' = 0
    /\ last' = [op |-> "execute_workflow", call |-> c]
    /\ UNCHANGED <<contextVars, notified, execution_history>>

\* execute_workflow, lines 105-107: the reset, and the coroutine ends
Finally(c) ==
    /\ UNCHANGED <<outsideAgent, instances>>
    /\ running = c
    /\ calls[c].pc = "finally"
    /\ current_workflow' = None
    /\ status' = "idle"
    /\ calls' = [calls EXCEPT ![c].pc = "done"]
    /\ running' = 0
    /\ last' = [op |-> "execute_workflow", call |-> c]
    /\ UNCHANGED <<contextVars, notified, execution_history>>

\* A bug pause_execution could have: it pauses whatever is not idle.
PauseExecutionFromAnyStatus ==
    /\ UNCHANGED <<outsideAgent, instances>>
    /\ running = 0
    /\ IF status # "idle"
       THEN /\ Room(1)
            /\ status' = "paused"
            /\ notify_progress(<<"Workflow paused">>, 0, "paused", current_workflow)
            /\ last' = [op |-> "pause_execution", ret |-> TRUE]
       ELSE /\ last' = [op |-> "pause_execution", ret |-> FALSE]
            /\ UNCHANGED <<status, activities, added, notified>>
    /\ UNCHANGED <<chat_history, session_data, chatted, current_workflow,
                   execution_history, calls, running>>

\* pause_execution
PauseExecution ==
    /\ UNCHANGED <<outsideAgent, instances>>
    /\ running = 0
    /\ IF status = "executing"
       THEN /\ Room(1)
            /\ status' = "paused"
            /\ notify_progress(<<"Workflow paused">>, 0, "paused", current_workflow)
            /\ last' = [op |-> "pause_execution", ret |-> TRUE]
       ELSE /\ last' = [op |-> "pause_execution", ret |-> FALSE]
            /\ UNCHANGED <<status, activities, added, notified>>
    /\ UNCHANGED <<chat_history, session_data, chatted, current_workflow,
                   execution_history, calls, running>>

\* resume_execution
ResumeExecution ==
    /\ UNCHANGED <<outsideAgent, instances>>
    /\ running = 0
    /\ IF status = "paused"
       THEN /\ Room(1)
            /\ status' = "executing"
            /\ notify_progress(<<"Workflow resumed">>, 0, "executing", current_workflow)
            /\ last' = [op |-> "resume_execution", ret |-> TRUE]
       ELSE /\ last' = [op |-> "resume_execution", ret |-> FALSE]
            /\ UNCHANGED <<status, activities, added, notified>>
    /\ UNCHANGED <<chat_history, session_data, chatted, current_workflow,
                   execution_history, calls, running>>

\* A bug stop_execution could have: the workflow is left in place.
StopExecutionKeepsWorkflow ==
    /\ UNCHANGED <<outsideAgent, instances>>
    /\ running = 0
    /\ IF status \in {"executing", "paused"}
       THEN /\ Room(1)
            /\ status' = "idle"
            /\ notify_progress(<<"Workflow stopped">>, 0, "idle", current_workflow)
            /\ last' = [op |-> "stop_execution", ret |-> TRUE]
       ELSE /\ last' = [op |-> "stop_execution", ret |-> FALSE]
            /\ UNCHANGED <<status, activities, added, notified>>
    /\ UNCHANGED <<chat_history, session_data, chatted, current_workflow,
                   execution_history, calls, running>>

\* stop_execution: the workflow's coroutine is not cancelled
StopExecution ==
    /\ UNCHANGED <<outsideAgent, instances>>
    /\ running = 0
    /\ IF status \in {"executing", "paused"}
       THEN /\ Room(1)
            /\ status' = "idle"
            /\ current_workflow' = None
            /\ notify_progress(<<"Workflow stopped">>, 0, "idle", None)
            /\ last' = [op |-> "stop_execution", ret |-> TRUE]
       ELSE /\ last' = [op |-> "stop_execution", ret |-> FALSE]
            /\ UNCHANGED <<status, current_workflow, activities, added, notified>>
    /\ UNCHANGED <<chat_history, session_data, chatted, execution_history, calls, running>>

\* set_progress_callback(callback), called by the host between two steps of the
\* event loop
SetProgressCallback ==
    /\ running = 0
    /\ progress_callback = None
    /\ progress_callback' = "callback"
    /\ last' = [op |-> "set_progress_callback"]
    /\ UNCHANGED <<contextVars, agentVars, managerVars, serverVars, notified, instances,
                   run>>

\* one step of the coroutine of call c
CallStep(c) ==
    \/ ExecuteWorkflow(c)
    \/ Initialize(c)
    \/ WorkflowAwaits(c)
    \/ WorkflowResumes(c)
    \/ WorkflowEnds(c)
    \/ Complete(c)
    \/ Except(c)
    \/ Finally(c)

NextAgent ==
    \/ \E c \in CallIds : CallStep(c)
    \/ PauseExecution
    \/ ResumeExecution
    \/ StopExecution

(***************************************************************************)
(* The concrete workflows.  Their execute awaits only coroutines of their  *)
(* own that never wait for anything, so it runs to its end without giving  *)
(* the event loop to anyone; it is cut into steps at its progress          *)
(* notifications.  run holds its local variables.                          *)
(***************************************************************************)
\* an item of a batch: item.get("script", "") with whether it is a text at all,
\* and item.get("name", "")
Items ==
    {[script |-> <<"a">>, is_text |-> TRUE, name |-> "p"],
     [script |-> <<" ">>, is_text |-> TRUE, name |-> ""],
     [script |-> <<>>, is_text |-> TRUE, name |-> "p"],
     [script |-> <<>>, is_text |-> FALSE, name |-> ""]}

\* the sequences of at most n elements of S
RECURSIVE SeqsUpTo(_, _)
SeqsUpTo(S, n) ==
    IF n = 0 THEN {<<>>}
    ELSE LET shorter == SeqsUpTo(S, n - 1)
         IN  shorter \cup {Append(q, x) : q \in shorter, x \in S}

Operations == {"tts_generation", "script_improvement", "project_export", "translate"}

\* the params batch_processing is called with: complete, and with keys left out
BatchParams ==
    {[items |-> items, operation |-> operation] :
        items \in SeqsUpTo(Items, MaxItems), operation \in Operations}
    \cup {[items |-> <<CHOOSE item \in Items : item.name = "p" /\ item.script # <<>>>>]}
    \cup {[operation |-> "tts_generation"]}
    \cup {EmptyDict}

\* the params script_improvement is called with: complete, and with the script
\* left out
ScriptParams ==
    {[script_content |-> script] : script \in Scripts}
    \cup {[script_content |-> script, auto_apply |-> auto_apply] :
            script \in Scripts, auto_apply \in BOOLEAN}
    \cup {[auto_apply |-> TRUE]}
    \cup {EmptyDict}

ConcreteRequests ==
    {[workflow |-> "batch_processing", params |-> params] : params \in BatchParams}
    \cup {[workflow |-> "script_improvement", params |-> params] : params \in ScriptParams}

\* execute_workflow called with one of the two registered workflows
ExecuteConcreteWorkflow(c) ==
    \E request \in ConcreteRequests : execute_workflow(c, request)

\* a per-item result
ItemResult(success, error) == [success |-> success, error |-> error]

\* _generate_tts_for_item and _improve_script_for_item, which differ in what they
\* return on success only; an item whose script is no text makes strip() raise
for_script_item(item) ==
    IF ~item.is_text THEN ItemResult(FALSE, <<"raised">>)
    ELSE IF ~HasContent(item.script) THEN ItemResult(FALSE, <<"No script content">>)
    ELSE ItemResult(TRUE, NoError)

\* _export_project_for_item
export_project_for_item(item) ==
    IF item.name = "" THEN ItemResult(FALSE, <<"No project name">>)
    ELSE ItemResult(TRUE, NoError)

\* _process_item(item, operation): an exception of the operation is caught here
\* and becomes a failed result
process_item(item, operation) ==
    CASE operation = "tts_generation" -> for_script_item(item)
      [] operation = "script_improvement" -> for_script_item(item)
      [] operation = "project_export" -> export_project_for_item(item)
      [] OTHER -> ItemResult(FALSE, <<"Unknown operation", operation>>)

\* A bug the summary could have: every record counts as successful.
batch_summary_counting_all(results, operation) ==
    [total_items |-> Len(results),
     successful |-> Len(results),
     failed |-> 0,
     results |-> results,
     operation |-> operation]

\* BatchProcessingWorkflow.execute, lines 49-59: the data of the result
batch_summary(results, operation) ==
    LET successful == Cardinality({i \in 1..Len(results) : results[i].result.success})
    IN  [total_items |-> Len(results),
         successful |-> successful,
         failed |-> Len(results) - successful,
         results |-> results,
         operation |-> operation]

\* self.params of the workflow of call c
ParamsOf(c) == instances[calls[c].workflow].params

\* params.get(key, default)
ParamOr(params, key, default) ==
    IF key \in DOMAIN params THEN params[key] ELSE default

\* what a step of a workflow's execute leaves alone, but for the log
outsideWorkflow ==
    <<chat_history, session_data, chatted, status, current_workflow, execution_history,
      running, progress_callback, instances, managerVars, serverVars>>

\* the step of execute ends it with this result
Returns(c, result) ==
    /\ calls' = [calls EXCEPT ![c] = [@ EXCEPT !.pc = "returned", !.result = result]]
    /\ run' = NoRun

\* BatchProcessingWorkflow.execute, lines 24-30: no items, or the first notification
BatchBegins(c) ==
    /\ running = c
    /\ calls[c].pc = "execute"
    /\ calls[c].workflow = "batch_processing"
    /\ run = NoRun
    /\ LET items == ParamOr(ParamsOf(c), "items", <<>>)
           operation == ParamOr(ParamsOf(c), "operation", "tts_generation")
       IN  IF items = <<>>
           THEN /\ Returns(c, WorkflowResult(FALSE, None,
                                             <<"No items provided for batch processing">>))
                /\ UNCHANGED <<activities, added, notified>>
           ELSE /\ notify_progress(<<"Starting batch processing", Len(items)>>, 0, status,
                                   current_workflow)
                /\ run' = [pc |-> "report", call |-> c, items |-> items,
                           operation |-> operation, i |-> 0, results |-> <<>>]
                /\ UNCHANGED calls
    /\ last' = [op |-> "execute_workflow", call |-> c]
    /\ UNCHANGED outsideWorkflow

\* lines 35-37: the notification of item i, or after the last item the last
\* notification and the result (lines 47-59)
BatchReports(c) ==
    /\ running = c
    /\ run.pc = "report" /\ run.call = c
    /\ LET total_items == Len(run.items)
       IN  IF run.i < total_items
           THEN /\ notify_progress(<<"Processing item", run.i + 1, total_items>>,
                                   ((run.i + 1) * 100) \div total_items, status,
                                   current_workflow)
                /\ run' = [run EXCEPT !.pc = "process"]
                /\ UNCHANGED calls
           ELSE /\ notify_progress(<<"Batch processing completed">>, 100, status,
                                   current_workflow)
                /\ Returns(c, WorkflowResult(TRUE, batch_summary(run.results, run.operation),
                                             NoError))
    /\ last' = [op |-> "execute_workflow", call |-> c]
    /\ UNCHANGED outsideWorkflow

\* lines 40-45: item i is processed and its record appended
BatchProcesses(c) ==
    /\ running = c
    /\ run.pc = "process" /\ run.call = c
    /\ LET item == run.items[run.i + 1]
           record == [item |-> item, result |-> process_item(item, run.operation),
                      index |-> run.i]
       IN  run' = [run EXCEPT !.pc = "report", !.i = run.i + 1,
                              !.results = Append(run.results, record)]
    /\ last' = [op |-> "execute_workflow", call |-> c]
    /\ UNCHANGED <<activities, added, notified, calls>>
    /\ UNCHANGED outsideWorkflow

\* _analyze_script: the suggestions of the analysis (the texts of the model have
\* fewer than 50 words and no punctuation)
analysis_suggestions(script_content) ==
    (IF WordCount(script_content) < 50 THEN <<"expand">> ELSE <<>>)
    \o <<"punctuation">>

\* _generate_improvements for the improvement type "general": one improvement of
\* type general per suggestion
improvement_types(script_content) ==
    [i \in 1..Len(analysis_suggestions(script_content)) |-> "general"]

\* _apply_improvements: the script with the note appended; the note is kept as a
\* blank and one word
improved_script(script_content) == script_content \o <<" ", "n">>

\* A bug execute could have: the first notification comes before the check.
ScriptBeginsReportingFirst(c) ==
    /\ running = c
    /\ calls[c].pc = "execute"
    /\ calls[c].workflow = "script_improvement"
    /\ run = NoRun
    /\ LET script_content == ParamOr(ParamsOf(c), "script_content", <<>>)
       IN  /\ notify_progress(<<"Analyzing script content...">>, 20, status,
                              current_workflow)
           /\ IF ~HasContent(script_content)
              THEN Returns(c, WorkflowResult(FALSE, None, <<"No script content provided">>))
              ELSE /\ run' = [pc |-> "analyze", call |-> c,
                              script_content |-> script_content]
                   /\ UNCHANGED calls
    /\ last' = [op |-> "execute_workflow", call |-> c]
    /\ UNCHANGED outsideWorkflow

\* ScriptImprovementWorkflow.execute, lines 24-30: no script, or the first
\* notification
ScriptBegins(c) ==
    /\ running = c
    /\ calls[c].pc = "execute"
    /\ calls[c].workflow = "script_improvement"
    /\ run = NoRun
    /\ LET script_content == ParamOr(ParamsOf(c), "script_content", <<>>)
       IN  IF ~HasContent(script_content)
           THEN /\ Returns(c, WorkflowResult(FALSE, None, <<"No script content provided">>))
                /\ UNCHANGED <<activities, added, notified>>
           ELSE /\ notify_progress(<<"Analyzing script content...">>, 20, status,
                                   current_workflow)
                /\ run' = [pc |-> "analyze", call |-> c,
                           script_content |-> script_content]
                /\ UNCHANGED calls
    /\ last' = [op |-> "execute_workflow", call |-> c]
    /\ UNCHANGED outsideWorkflow

\* A bug execute could have: the end of the analysis is not reported.
ScriptAnalyzesSilently(c) ==
    /\ running = c
    /\ run.pc = "analyze" /\ run.call = c
    /\ run' = [run EXCEPT !.pc = "generate"]
    /\ last' = [op |-> "execute_workflow", call |-> c]
    /\ UNCHANGED <<activities, added, notified, calls>>
    /\ UNCHANGED outsideWorkflow

\* lines 33-34: the analysis and its notification
ScriptAnalyzes(c) ==
    /\ running = c
    /\ run.pc = "analyze" /\ run.call = c
    /\ notify_progress(<<"Script analysis complete">>, 40, status, current_workflow)
    /\ run' = [run EXCEPT !.pc = "generate"]
    /\ last' = [op |-> "execute_workflow", call |-> c]
    /\ UNCHANGED calls
    /\ UNCHANGED outsideWorkflow

\* lines 37-38: the improvements and their notification
ScriptGenerates(c) ==
    /\ running = c
    /\ run.pc = "generate" /\ run.call = c
    /\ notify_progress(<<"Generated improvement suggestions">>, 60, status,
                       current_workflow)
    /\ run' = [run EXCEPT !.pc = "apply"]
    /\ last' = [op |-> "execute_workflow", call |-> c]
    /\ UNCHANGED calls
    /\ UNCHANGED outsideWorkflow

\* lines 41-44 and 57-65: with auto_apply the improvements are applied and
\* notified; without, the last notification and the result
ScriptApplies(c) ==
    /\ running = c
    /\ run.pc = "apply" /\ run.call = c
    /\ IF ParamOr(ParamsOf(c), "auto_apply", FALSE)
       THEN /\ notify_progress(<<"Applied improvements to script">>, 80, status,
                               current_workflow)
            /\ run' = [run EXCEPT !.pc = "update"]
            /\ UNCHANGED calls
       ELSE /\ notify_progress(<<"Improvement suggestions ready">>, 100, status,
                               current_workflow)
            /\ Returns(c, WorkflowResult(TRUE,
                            [original_script |-> run.script_content,
                             improvements |-> improvement_types(run.script_content),
                             auto_applied |-> FALSE],
                            NoError))
    /\ last' = [op |-> "execute_workflow", call |-> c]
    /\ UNCHANGED outsideWorkflow

\* line 47: context_manager.update_script(improved_script)
ScriptUpdates(c) ==
    /\ running = c
    /\ run.pc = "update" /\ run.call = c
    /\ instances[calls[c].workflow].context_manager = "context_manager"
    /\ update_script(improved_script(run.script_content))
    /\ run' = [run EXCEPT !.pc = "updated"]
    /\ UNCHANGED <<chat_history, chatted, current_project, sync_callbacks>>
    /\ UNCHANGED <<agentVars, serverVars, progress_callback, notified, instances>>

\* lines 48-56: the last notification and the result
ScriptEnds(c) ==
    /\ running = c
    /\ run.pc = "updated" /\ run.call = c
    /\ notify_progress(<<"Script updated successfully">>, 100, status, current_workflow)
    /\ Returns(c, WorkflowResult(TRUE,
                    [original_script |-> run.script_content,
                     improved_script |-> improved_script(run.script_content),
                     improvements |-> improvement_types(run.script_content),
                     auto_applied |-> TRUE],
                    NoError))
    /\ last' = [op |-> "execute_workflow", call |-> c]
    /\ UNCHANGED outsideWorkflow

\* one step of a call of a concrete workflow
ConcreteStep(c) ==
    \/ ExecuteConcreteWorkflow(c)
    \/ Initialize(c)
    \/ BatchBegins(c)
    \/ BatchReports(c)
    \/ BatchProcesses(c)
    \/ ScriptBegins(c)
    \/ ScriptAnalyzes(c)
    \/ ScriptGenerates(c)
    \/ ScriptApplies(c)
    \/ ScriptUpdates(c)
    \/ ScriptEnds(c)
    \/ Complete(c)
    \/ Except(c)
    \/ Finally(c)

\* the agent running the registered workflows for a host that also creates projects
NextWorkflows ==
    \/ \E c \in CallIds : ConcreteStep(c)
    \/ HostCreatesProject

\* execute_workflow, lines 65-107, with script_improvement and an empty script, as
\* one step: nothing in it waits, so the coroutine runs from its call to its return
\* without giving the event loop to anyone.  The start notification, initialize,
\* the failed result of execute (script_improvement.py line 28), the completion
\* notification, the history entry and the reset.
RunsThrough ==
    /\ running = 0
    /\ status = "idle"
    /\ Len(execution_history) < MaxRuns
    /\ LET workflow == "script_improvement"
           params == [script_content |-> <<>>]
           result == WorkflowResult(FALSE, None, <<"No script content provided">>)
           start == progress_activity(<<"Starting workflow", workflow>>, 0, "planning",
                                      workflow)
           completion == progress_activity(<<"Workflow completed", workflow>>, 100,
                                           "completed", workflow)
       IN  /\ missing_params(workflow, params) = {}
           /\ ~HasContent(ParamOr(params, "script_content", <<>>))
           /\ instances' = [instances EXCEPT ![workflow] =
                               [params |-> params, context_manager |-> "context_manager"]]
           /\ activities' = add_activity(add_activity(activities, start), completion)
           /\ added' = added \o <<start, completion>>
           /\ execution_history' = Append(execution_history,
                   [workflow |-> workflow, params |-> params,
                    result |-> result.success, error |-> result.error])
           /\ last' = [op |-> "execute_workflow", ret |-> result]
    /\ progress_callback = None
    /\ UNCHANGED <<status, current_workflow, calls, running, notified>>
    /\ UNCHANGED <<chat_history, session_data, chatted, run, progress_callback>>
    /\ UNCHANGED <<managerVars, serverVars>>

(***************************************************************************)
(* The getters of the recent entries of the three lists                    *)
(***************************************************************************)
\* list[-count:] if list else [], for count >= 0: -0 is 0, and list[0:] is the
\* whole list
tail_slice(list, count) ==
    IF list = <<>> THEN <<>>
    ELSE IF count = 0 THEN list
    ELSE LastN(list, count)

\* MCPContext.get_recent_activities(count, activity_type)
get_recent_activities(log, count, activity_type) ==
    LET OfType(activity) == activity.type = activity_type
        filtered == IF activity_type # None THEN SelectSeq(log, OfType) ELSE log
    IN  tail_slice(filtered, count)

\* MCPContext.get_chat_context(message_count)
get_chat_context(history, message_count) == tail_slice(history, message_count)

\* AutonomousAgent.get_execution_history(limit)
get_execution_history(history, limit) == tail_slice(history, limit)

\* the counts and the activity types the getters are called with
Counts == 0..MaxCount

ActivityTypes == {None, "agent_progress", "chat_message"}

\* what a getter leaves alone: everything
Reads ==
    UNCHANGED <<contextVars, agentVars, managerVars, serverVars, progress_callback, notified,
                instances, run>>

GetRecentActivities ==
    /\ \E count \in Counts, activity_type \in ActivityTypes :
          last' = [op |-> "get_recent_activities", count |-> count,
                   activity_type |-> activity_type,
                   ret |-> get_recent_activities(activities, count, activity_type)]
    /\ Reads

GetChatContext ==
    /\ \E count \in Counts :
          last' = [op |-> "get_chat_context", count |-> count,
                   ret |-> get_chat_context(chat_history, count)]
    /\ Reads

GetExecutionHistory ==
    /\ \E count \in Counts :
          last' = [op |-> "get_execution_history", count |-> count,
                   ret |-> get_execution_history(execution_history, count)]
    /\ Reads

\* the host runs a workflow, which adds an entry to the execution history and two
\* to the activity log
HostRunsWorkflow ==
    /\ Len(execution_history) < MaxEntries
    /\ RunsThrough

\* the host adds a chat message, and with it an activity
HostAddsChatMessage ==
    /\ Len(chatted) < MaxEntries
    /\ AddChatMessage

\* a host that runs workflows, adds chat messages and reads the recent entries
NextReads ==
    \/ HostRunsWorkflow
    \/ HostAddsChatMessage
    \/ GetRecentActivities
    \/ GetChatContext
    \/ GetExecutionHistory

(***************************************************************************)
(* Specifications                                                          *)
(***************************************************************************)
SpecActivity == Init /\ [][AddActivity]_vars

SpecChat == Init /\ [][AddChatMessage]_vars

SpecSession == Init /\ [][UpdateSessionData]_vars

SpecAgent == Init /\ [][NextAgent]_vars

\* the agent, with a host that registers a progress callback at some time
SpecProgress == Init /\ [][NextAgent \/ SetProgressCallback]_vars

SpecManager == InitManager /\ [][NextManager]_vars

SpecServer == Init /\ [][NextServer]_vars

SpecWorkflows == InitManager /\ [][NextWorkflows]_vars

SpecReads == Init /\ [][NextReads]_vars

\* a host that starts one workflow after the other
SpecHistory == Init /\ [][RunsThrough]_vars

\* the event loop goes on with every coroutine that can run, and a workflow's
\* execute does not await for ever: it ends
FairSpecAgent ==
    /\ SpecAgent
    /\ \A c \in CallIds : WF_vars(CallStep(c)) /\ SF_vars(WorkflowEnds(c))

(***************************************************************************)
(* The agent                                                               *)
(***************************************************************************)
\* the calls whose workflow.execute has been started and has not ended
InFlight == {c \in CallIds : calls[c].pc \in {"execute", "suspended"}}

\* C1: at most one workflow is executing under the agent at a time: no two
\* workflow.execute coroutines started by the agent are in flight together.
C1_AtMostOneExecuting == Cardinality(InFlight) <= 1

\* C2: execute_workflow called while the status is not Idle returns a failed
\* WorkflowResult (busy) and changes neither the status, nor current_workflow, nor
\* the execution history, nor the activity log, nor any other call.
C2_BusyCallChangesNothing ==
    [][\A c \in CallIds :
          (calls[c].pc = "new" /\ calls'[c].pc # "new" /\ status # "idle") =>
              /\ calls'[c].pc = "done"
              /\ ~calls'[c].raised
              /\ calls'[c].ret = WorkflowResult(FALSE, None, <<"Agent is busy">>)
              /\ UNCHANGED <<status, current_workflow, execution_history, activities,
                             added, running>>
              /\ \A d \in CallIds \ {c} : calls'[d] = calls[d]]_vars

\* a call was turned away while another call's workflow was suspended at an await
C2_Witness ==
    \E c, d \in CallIds :
        /\ calls[c].pc = "done" /\ ~calls[c].accepted
        /\ calls[d].pc = "suspended"
        /\ last = [op |-> "execute_workflow", call |-> c]

StatusTransitions ==
    {<<"idle", "planning">>, <<"planning", "executing">>, <<"executing", "completed">>,
     <<"planning", "error">>, <<"executing", "error">>, <<"executing", "paused">>,
     <<"paused", "executing">>, <<"executing", "idle">>, <<"paused", "idle">>,
     <<"completed", "idle">>, <<"error", "idle">>}

\* C3: the status changes only along the transitions of the state machine.
C3_OnlyListedTransitions ==
    [][status' # status => <<status, status'>> \in StatusTransitions]_vars

\* C4: whenever control is outside the agent's methods, the status is Idle exactly
\* when there is no current workflow.
C4_IdleIffNoWorkflow ==
    running = 0 => (status = "idle" <=> current_workflow = None)

\* a workflow was stopped while suspended: the agent is idle, without a workflow
C4_Witness ==
    /\ running = 0
    /\ last = [op |-> "stop_execution", ret |-> TRUE]
    /\ InFlight # {}
    /\ status = "idle"

C6_AcceptedCallEndsIdle ==
    /\ [][\A c \in CallIds :
            (calls[c].accepted /\ calls[c].pc # "done" /\ calls'[c].pc = "done") =>
                (status' = "idle" /\ current_workflow' = None)]_vars
    /\ \A c \in CallIds :
            (calls[c].accepted /\ calls[c].pc # "done") ~> (calls[c].pc = "done")

\* the three outcomes have all happened: a call ended after an exception, and the
\* history holds a successful and a failed run
C6_Witness ==
    /\ running = 0 /\ status = "idle" /\ current_workflow = None
    /\ \E c \in CallIds : calls[c].pc = "done" /\ calls[c].accepted /\ calls[c].exc # <<>>
    /\ \E c \in CallIds : calls[c].pc = "done" /\ calls[c].accepted /\ calls[c].exc = <<>>

\* the step logged one notification, with this message and the new status
OneNotification(message) ==
    /\ Len(added') = Len(added) + 1
    /\ added'[Len(added')].type = "agent_progress"
    /\ added'[Len(added')].message = message
    /\ added'[Len(added')].status = status'

\* the step changed neither the status, nor the current workflow, nor the log
NothingDone == UNCHANGED <<status, current_workflow, activities, added>>

\* C14: pause_execution returns true only from Executing, and the status is then
\* Paused; resume_execution only from Paused, and the status is then Executing;
\* stop_execution only from Executing or Paused, and the status is then Idle with
\* no current workflow; each then logs one notification.  From any other status
\* each returns false and changes neither status, nor current_workflow, nor the log.
C14_ControlsActOnlyWhenEnabled ==
    [][/\ last'.op = "pause_execution" =>
            IF status = "executing"
            THEN /\ last'.ret
                 /\ status' = "paused" /\ current_workflow' = current_workflow
                 /\ OneNotification(<<"Workflow paused">>)
            ELSE ~last'.ret /\ NothingDone
       /\ last'.op = "resume_execution" =>
            IF status = "paused"
            THEN /\ last'.ret
                 /\ status' = "executing" /\ current_workflow' = current_workflow
                 /\ OneNotification(<<"Workflow resumed">>)
            ELSE ~last'.ret /\ NothingDone
       /\ last'.op = "stop_execution" =>
            IF status \in {"executing", "paused"}
            THEN /\ last'.ret
                 /\ status' = "idle" /\ current_workflow' = None
                 /\ OneNotification(<<"Workflow stopped">>)
            ELSE ~last'.ret /\ NothingDone]_vars

\* a paused workflow has been resumed
C14_Witness ==
    /\ last = [op |-> "resume_execution", ret |-> TRUE]
    /\ status = "executing"
    /\ activities[Len(activities)].message = <<"Workflow resumed">>
    /\ \E c \in CallIds : calls[c].pc = "suspended"

\* the workflow a notification of the step belongs to: that of the coroutine the
\* step is a step of; for pause, resume and stop the workflow they act on
NotificationOwner ==
    IF last'.op = "execute_workflow" THEN calls'[last'.call].workflow
    ELSE current_workflow

\* C19: every progress notification of an agent run goes to the registered
\* callback, when one is set, and to the activity log as one agent_progress entry,
\* and both carry the message, the progress, the status of the agent at the time
\* and the name of the workflow the notification belongs to.
C19_NotificationsCarryWorkflow ==
    [][Len(added') = Len(added) + 1 =>
          LET entry == added'[Len(added')]
          IN  /\ entry.type = "agent_progress"
              /\ activities'[Len(activities')].message = entry.message
              /\ entry.status = status'
              /\ entry.workflow = NotificationOwner
              /\ notified' = IF progress_callback # None
                             THEN Append(notified,
                                         progress_payload(entry.message, entry.progress,
                                                          entry.status, entry.workflow))
                             ELSE notified]_vars

(***************************************************************************)
(* The activity log and the chat history                                   *)
(***************************************************************************)
Min(a, b) == IF a <= b THEN a ELSE b

\* C7: the activity log never holds more than 100 entries, and it holds the
\* most recent min(n, 100) of the n activities added so far, in call order.
C7_ActivityLogIsRecentTail ==
    LET n == Len(added)
        m == Len(activities)
    IN  /\ m <= MaxActivities
        /\ m = Min(n, MaxActivities)
        /\ \A i \in 1..m : WithoutKey(activities[i], "id") = added[n - m + i]

\* more than 100 activities have been added and the log is full
C7_Witness ==
    /\ Len(added) > MaxActivities
    /\ Len(activities) = MaxActivities
    /\ last.op = "add_activity"

\* C8: activity ids strictly increase in the order the activities were added,
\* so no two entries of the log share an id.
C8_IdsStrictlyIncrease ==
    \A i, j \in 1..Len(activities) :
        i < j => activities[i].id < activities[j].id

\* C9: the chat history never holds more than 50 messages, and it holds the
\* most recent min(n, 50) of the n messages added so far, in call order.
C9_ChatHistoryIsRecentTail ==
    LET n == Len(chatted)
        m == Len(chat_history)
    IN  /\ m <= MaxChatHistory
        /\ m = Min(n, MaxChatHistory)
        /\ \A i \in 1..m : chat_history[i] = chatted[n - m + i]

\* more than 50 messages have been added and the history is full
C9_Witness ==
    /\ Len(chatted) > MaxChatHistory
    /\ Len(chat_history) = MaxChatHistory
    /\ last.op = "add_chat_message"

(***************************************************************************)
(* The session mapping                                                     *)
(***************************************************************************)
Missing == [kind |-> "missing", v |-> 0, items |-> EmptyDict]

SessionKeys == {"settings", "current_project", "volume", "speed", "level"}

\* the key paths down to the deepest dict of a session mapping
SessionPaths ==
    {<<>>} \cup {<<a>> : a \in SessionKeys}
           \cup {<<a, b>> : a \in SessionKeys, b \in SessionKeys}

\* the value a key path leads to
RECURSIVE At(_, _)
At(value, path) ==
    IF path = <<>> THEN value
    ELSE IF IsDict(value) /\ Head(path) \in DOMAIN value.items
         THEN At(value.items[Head(path)], Tail(path))
         ELSE Missing

\* both sides hold a dict all the way down the path
DictOnBothSides(old, partial, path) ==
    \A n \in 0..Len(path) :
        /\ IsDict(At(old, SubSeq(path, 1, n)))
        /\ IsDict(At(partial, SubSeq(path, 1, n)))

\* new is old with partial merged in: at every depth where both sides hold a dict,
\* a key partial does not mention keeps its value, a key that is a dict on both
\* sides stays a dict (its keys are the next depth), any other key of partial wins
IsDeepMergeOf(new, old, partial) ==
    \A path \in SessionPaths :
        DictOnBothSides(old, partial, path) =>
            LET o == At(old, path).items
                p == At(partial, path).items
                n == At(new, path)
            IN  /\ IsDict(n)
                /\ DOMAIN n.items = (DOMAIN o) \cup (DOMAIN p)
                /\ \A k \in DOMAIN n.items :
                       IF k \notin DOMAIN p THEN n.items[k] = o[k]
                       ELSE IF k \in DOMAIN o /\ IsDict(o[k]) /\ IsDict(p[k])
                            THEN IsDict(n.items[k])
                            ELSE n.items[k] = p[k]

\* C10: update_session_data(partial) is a deep merge: keys partial does not mention
\* keep their value at every depth, dicts on both sides merge recursively, every
\* other key of partial overwrites (also on a dict/scalar mismatch).
C10_UpdateIsDeepMerge ==
    [][last'.op = "update_session_data" =>
          IsDeepMergeOf(Dict(session_data'), Dict(session_data), Dict(last'.data))]_vars

\* {settings: {volume: 50}} then {settings: {speed: 1.5}}: both are there
C10_Witness ==
    /\ last.op = "update_session_data"
    /\ last.data = [settings |-> Dict([speed |-> Scalar(15)])]
    /\ session_data = [settings |-> Dict([volume |-> Scalar(50), speed |-> Scalar(15)])]

(***************************************************************************)
(* The Context Manager                                                     *)
(***************************************************************************)
ManagerMutations ==
    {"update_project", "set_current_project", "update_script", "add_chat_message",
     "update_settings", "set_api_key"}

\* the step made one sync, and made it on the mirror as the step left it
SyncedAfterMutation ==
    /\ last'.syncs = 1
    /\ external' = synced_mapping(session_data', current_project', external)

\* the step made no sync
NotSynced ==
    /\ last'.syncs = 0
    /\ external' = external
    /\ called' = <<>>

\* C11 as claimed: each of the six mutation methods of the Context Manager, on
\* every call, syncs to the external mapping, after it has changed the mirror.
C11_EveryMutationSyncs ==
    [][last'.op \in ManagerMutations => SyncedAfterMutation]_vars

\* C11 as amended: update_project, set_current_project, update_settings and
\* set_api_key sync on every call, after they have changed the mirror; update_script
\* does so exactly when the current project is non-empty and a key of the mirrored
\* projects, and otherwise does not sync; add_chat_message never syncs.
C11_MutationsSyncAfterMutating ==
    [][last'.op \in ManagerMutations =>
          IF \/ last'.op \in {"update_project", "set_current_project", "update_settings",
                              "set_api_key"}
             \/ /\ last'.op = "update_script"
                /\ current_project # ""
                /\ current_project \in DOMAIN Get(session_data, "projects")
          THEN SyncedAfterMutation
          ELSE NotSynced]_vars

\* update_script has stored the script in the current project and synced: the
\* external mapping shows it, and the callbacks have been called
C11_Witness ==
    /\ last.op = "update_script"
    /\ last.syncs = 1
    /\ current_script # <<>>
    /\ current_project \in DOMAIN Get(external, "projects")
    /\ Get(external, "projects")[current_project].items["script"] = Scalar(current_script)
    /\ called # <<>>

\* C12: set_api_key never puts the key into the activity log: the activities it
\* appends are those any other key of the same length and the same blankness
\* would have given, for the same service.
C12_KeyValueNotLogged ==
    [][last'.op = "set_api_key" =>
          \A other \in ApiKeys :
              (Len(other) = Len(last'.api_key)
                  /\ HasContent(other) = HasContent(last'.api_key)) =>
                  LET logged == api_key_activities(session_data, last'.service, other)
                  IN  /\ added' = added \o logged
                      /\ activities' = log_all(activities, logged)]_vars

\* the key "k" was set for ionos: it is in the mirror, and the log tells its length
C12_Witness ==
    /\ last.op = "set_api_key"
    /\ last.api_key = <<"k">>
    /\ Get(session_data, "api_keys")["ionos_api_key"] = Scalar(<<"k">>)
    /\ activities[Len(activities)].type = "api_key_update"
    /\ activities[Len(activities)].key_length = 1
    /\ activities[Len(activities)].is_set

\* C18: on every sync each registered callback is called once, in registration
\* order, with the external mapping as the sync has left it; a callback that raises
\* keeps neither the later callbacks from being called, nor the update of the
\* external mapping, and nothing is raised to the caller of the method.
C18_CallbacksCalledInOrder ==
    [][(last'.op \in ManagerMutations /\ last'.syncs = 1) =>
          /\ ~last'.raised
          /\ Len(called') = Len(sync_callbacks)
          /\ \A i \in 1..Len(sync_callbacks) :
                 called'[i] = [callback |-> sync_callbacks[i].name, data |-> external']
          /\ external' = synced_mapping(session_data', current_project', external)]_vars

\* a sync with two callbacks, the first of which raises, has changed the external
\* mapping
C18_Witness ==
    /\ last.op = "set_current_project"
    /\ Len(sync_callbacks) = 2
    /\ sync_callbacks[1].raises /\ ~sync_callbacks[2].raises
    /\ Len(called) = 2
    /\ external["current_project"] = Scalar("demo")

\* C20: export_context changes nothing of the context, and the snapshot it returns
\* holds the session data, the chat history and the activities of the moment.
C20_ExportIsReadOnly ==
    [][last'.op = "export_context" =>
          /\ UNCHANGED <<session_data, chat_history, activities, current_script,
                         current_project>>
          /\ last'.snapshot.session_data = session_data
          /\ last'.snapshot.chat_history = chat_history
          /\ last'.snapshot.activities = activities]_vars

\* a context with a chat message and more than two activities has been exported
C20_Witness ==
    /\ last.op = "export_context"
    /\ last.snapshot.chat_history # <<>>
    /\ last.snapshot.chat_history = chat_history
    /\ Len(last.snapshot.activities) > 2
    /\ last.snapshot.session_data = session_data

(***************************************************************************)
(* The Server                                                              *)
(***************************************************************************)
\* C13: execute_tool on a name that is not registered raises a not-found error and
\* logs nothing; on a registered name it logs one tool_execution activity before
\* the tool runs, and when the tool ends one more activity: tool_result when the
\* tool returned, and its result is returned, or tool_error when the tool raised,
\* and its error is raised again.
C13_ToolExecutionLogged ==
    [][\A t \in ToolCallIds :
          /\ (tool_calls[t].pc = "new" /\ tool_calls'[t].pc # "new") =>
                IF tool_calls'[t].tool \notin tools
                THEN /\ tool_calls'[t].pc = "done"
                     /\ tool_calls'[t].raised = <<"Tool not found", tool_calls'[t].tool>>
                     /\ UNCHANGED <<activities, added>>
                ELSE /\ tool_calls'[t].pc = "executing"
                     /\ tool_calls'[t].raised = <<>>
                     /\ Len(added') = Len(added) + 1
                     /\ added'[Len(added')].type = "tool_execution"
                     /\ added'[Len(added')].tool = tool_calls'[t].tool
          /\ (tool_calls[t].pc = "executing" /\ tool_calls'[t].pc # "executing") =>
                /\ tool_calls'[t].pc = "done"
                /\ Len(added') = Len(added) + 1
                /\ added'[Len(added')].tool = tool_calls[t].tool
                /\ IF tool_calls'[t].exc = <<>>
                   THEN /\ added'[Len(added')].type = "tool_result"
                        /\ tool_calls'[t].raised = <<>>
                        /\ tool_calls'[t].ret = tool_calls'[t].result
                   ELSE /\ added'[Len(added')].type = "tool_error"
                        /\ added'[Len(added')].error = tool_calls'[t].exc
                        /\ tool_calls'[t].raised = tool_calls'[t].exc]_vars

\* a tool has raised and another has returned its result: the log holds the four
\* activities of the two calls
C13_Witness ==
    /\ \E t, u \in ToolCallIds :
          /\ tool_calls[t].pc = "done" /\ tool_calls[t].exc # <<>>
          /\ tool_calls[u].pc = "done" /\ tool_calls[u].exc = <<>>
          /\ tool_calls[u].tool \in tools /\ tool_calls[u].ret # <<>>
    /\ Len(activities) = 4

\* the step ends a call of execute_tool whose tool returned a result
ToolReturned(t) ==
    /\ tool_calls[t].pc = "executing"
    /\ tool_calls'[t].pc = "done"
    /\ tool_calls'[t].exc = <<>>

\* C28 as stated: the result text of a tool_result activity is never longer than
\* 200 characters, and it is the full string when that has 200 characters or fewer.
C28_ResultTextWithinLimit ==
    [][\A t \in ToolCallIds :
          ToolReturned(t) =>
              LET text == added'[Len(added')].result
                  full == tool_calls'[t].result
              IN  /\ Len(text) <= MaxResultText
                  /\ Len(full) <= MaxResultText => text = full]_vars

\* C28, amended: the result text of a tool_result activity is the full string when
\* that has 200 characters or fewer, and otherwise its first 200 characters
\* followed by three dots, 203 characters in all.
C28_ResultTextCutAndMarked ==
    [][\A t \in ToolCallIds :
          ToolReturned(t) =>
              LET text == added'[Len(added')].result
                  full == tool_calls'[t].result
              IN  /\ added'[Len(added')].type = "tool_result"
                  /\ IF Len(full) <= MaxResultText
                     THEN text = full
                     ELSE /\ Len(text) = MaxResultText + 3
                          /\ \A i \in 1..MaxResultText : text[i] = full[i]
                          /\ \A i \in 1..3 : text[MaxResultText + i] = "."]_vars

\* the log holds the result of a tool that returned 201 characters, as a text of
\* 203, and the result of a tool that returned 200 characters, in full
C28_Witness ==
    /\ \E i \in 1..Len(added) :
          /\ added[i].type = "tool_result"
          /\ Len(added[i].result) = MaxResultText + 3
    /\ \E i \in 1..Len(added) :
          /\ added[i].type = "tool_result"
          /\ added[i].result = Text(MaxResultText)

(***************************************************************************)
(* The workflows                                                           *)
(***************************************************************************)
\* the local variables of the execute under way were read from the params its call
\* was given
UsesGivenParams ==
    run.pc # "none" =>
        LET given == calls[run.call].params
        IN  IF calls[run.call].workflow = "batch_processing"
            THEN run.items = given["items"] /\ run.operation = given["operation"]
            ELSE run.script_content = given["script_content"]

\* C15: Workflow.initialize fails exactly when a name of required_params is no key
\* of params, and the error names the missing keys, all of them and no other;
\* otherwise it succeeds, and the workflow holds the given params and context
\* manager, which are what the execute that follows works with.
C15_InitializeChecksRequired ==
    [][/\ \A c \in CallIds :
            (calls[c].pc = "initialize" /\ calls'[c].pc # "initialize") =>
                LET absent == {p \in required_params(calls[c].workflow) :
                                  p \notin DOMAIN calls[c].params}
                IN  IF absent # {}
                    THEN /\ calls'[c].pc = "except"
                         /\ calls'[c].exc = <<"Missing required parameters", absent>>
                    ELSE /\ calls'[c].pc = "execute"
                         /\ calls'[c].exc = <<>>
                         /\ instances'[calls[c].workflow] =
                                [params |-> calls[c].params,
                                 context_manager |-> "context_manager"]
       /\ UsesGivenParams']_vars

\* a batch called without items and without operation has ended: both were named
C15_Witness ==
    \E c \in CallIds :
        /\ calls[c].pc = "done"
        /\ calls[c].workflow = "batch_processing"
        /\ calls[c].exc = <<"Missing required parameters", {"items", "operation"}>>

\* whether the operation succeeds on the item
Succeeds(item, operation) ==
    CASE operation \in {"tts_generation", "script_improvement"} ->
            item.is_text /\ HasContent(item.script)
      [] operation = "project_export" -> item.name # ""
      [] OTHER -> FALSE

\* C16: a batch over a non-empty sequence of items, whatever the operation, returns
\* a successful result with one record per item in input order (index = position),
\* total_items the number of items, successful the number of records with a
\* successful result and successful + failed = total_items; an item that fails and
\* an unknown operation give failed records and the batch goes on.
C16_BatchResultCountsItems ==
    \A c \in CallIds :
        (/\ calls[c].workflow = "batch_processing"
         /\ calls[c].accepted
         /\ calls[c].pc \in {"returned", "finally", "done"}
         /\ calls[c].exc = <<>>
         /\ calls[c].params["items"] # <<>>) =>
            LET items == calls[c].params["items"]
                operation == calls[c].params["operation"]
                data == calls[c].result.data
            IN  /\ calls[c].result.success
                /\ calls[c].result.error = NoError
                /\ Len(data.results) = Len(items)
                /\ \A i \in 1..Len(items) :
                       /\ data.results[i].item = items[i]
                       /\ data.results[i].index = i - 1
                       /\ data.results[i].result.success = Succeeds(items[i], operation)
                       /\ ~Succeeds(items[i], operation) =>
                              data.results[i].result.error # NoError
                /\ data.total_items = Len(items)
                /\ data.successful =
                       Cardinality({i \in 1..Len(items) : data.results[i].result.success})
                /\ data.successful + data.failed = data.total_items
                /\ data.operation = operation

\* a batch of two items has ended: the first item succeeded, the second failed
C16_Witness ==
    \E c \in CallIds :
        /\ calls[c].pc = "done"
        /\ calls[c].workflow = "batch_processing"
        /\ calls[c].exc = <<>>
        /\ calls[c].params["operation"] = "tts_generation"
        /\ Len(calls[c].params["items"]) = 2
        /\ calls[c].ret.data.successful = 1
        /\ calls[c].ret.data.failed = 1
        /\ calls[c].ret.data.results[1].result.success
        /\ ~calls[c].ret.data.results[2].result.success

\* the input the execute of call c starts with is blank
BlankInput(c) ==
    IF calls[c].workflow = "batch_processing"
    THEN calls[c].params["items"] = <<>>
    ELSE ~HasContent(calls[c].params["script_content"])

\* C17: a script improvement whose script is empty or blank and a batch without
\* items end at once with a failed result and a non-empty error: the workflow
\* emits no notification, and the current script, the session mapping and the
\* external mapping stay as they were.
C17_BlankInputRejectedAtOnce ==
    [][\A c \in CallIds :
          (/\ calls[c].pc = "execute" /\ run = NoRun
           /\ (calls'[c].pc # "execute" \/ run' # NoRun)
           /\ BlankInput(c)) =>
              /\ calls'[c].pc = "returned"
              /\ run' = NoRun
              /\ ~calls'[c].result.success
              /\ calls'[c].result.error # NoError
              /\ UNCHANGED <<activities, added, notified, current_script, session_data,
                             external>>]_vars

\* a script improvement called with a blank script has returned its failed result,
\* and the last entry of the log is still the start notification of the agent
C17_Witness ==
    \E c \in CallIds :
        /\ calls[c].pc = "returned"
        /\ calls[c].workflow = "script_improvement"
        /\ calls[c].params["script_content"] = <<" ">>
        /\ ~calls[c].result.success
        /\ activities[Len(activities)].progress = 0
        /\ activities[Len(activities)].status = "planning"

(***************************************************************************)
(* The Context Manager and the external mapping                            *)
(***************************************************************************)
\* C25: after set_current_project(name), for every name, the empty string too, the
\* current project of the Context is name and so is current_project in the
\* external session mapping.
C25_ProjectSetEverywhere ==
    [][last'.op = "set_current_project" =>
          /\ current_project' = last'.name
          /\ external'["current_project"] = Scalar(last'.name)]_vars

\* the number of whitespace-separated words of a text, counted at their ends
Words(text) ==
    Cardinality({i \in 1..Len(text) :
                    text[i] # " " /\ (i = Len(text) \/ text[i + 1] = " ")})

\* the project record shows the script with its counts
ShowsScript(projects, project, content) ==
    /\ project \in DOMAIN projects
    /\ {"script", "character_count", "word_count"} \subseteq DOMAIN projects[project].items
    /\ projects[project].items["script"] = Scalar(content)
    /\ projects[project].items["character_count"] = Scalar(Len(content))
    /\ projects[project].items["word_count"] = Scalar(Words(content))

\* C26: update_script(content) sets the current script of the Context to content;
\* when the current project is non-empty and a key of the mirrored projects, that
\* project's script, character_count and word_count become those of content, in the
\* mirror and in the external mapping; otherwise the mirror and the external
\* mapping are left unchanged.
C26_ScriptStoredInCurrentProject ==
    [][last'.op = "update_script" =>
          /\ current_script' = last'.content
          /\ current_project' = current_project
          /\ IF /\ current_project # ""
                /\ current_project \in DOMAIN Get(session_data, "projects")
             THEN /\ ShowsScript(Get(session_data', "projects"), current_project,
                                 last'.content)
                  /\ ShowsScript(Get(external', "projects"), current_project,
                                 last'.content)
                  /\ \A other \in DOMAIN Get(session_data, "projects") \ {current_project} :
                         Get(session_data', "projects")[other] =
                             Get(session_data, "projects")[other]
             ELSE /\ session_data' = session_data
                  /\ external' = external]_vars

\* a script of two words has been stored in the current project, and the external
\* mapping shows its counts
C26_Witness ==
    /\ last.op = "update_script"
    /\ last.content = <<"a", " ", "b">>
    /\ current_project \in DOMAIN Get(external, "projects")
    /\ Get(external, "projects")[current_project].items["word_count"] = Scalar(2)
    /\ Get(external, "projects")[current_project].items["character_count"] = Scalar(3)

\* the top-level entry of the session mapping that a method of the manager targets
Target(op) ==
    CASE op = "update_settings" -> "settings"
      [] op = "set_api_key" -> "api_keys"
      [] op \in {"update_project", "update_script"} -> "projects"

\* C29: update_settings, set_api_key, update_project and update_script change in
\* the external session mapping only the top-level entry they target: every other
\* entry, a current_project that the host wrote there too, is as it was before
\* the call.
C29_OnlyTargetEntryChanges ==
    [][last'.op \in {"update_settings", "set_api_key", "update_project", "update_script"} =>
          \A key \in DOMAIN external \ {Target(last'.op)} :
              /\ key \in DOMAIN external'
              /\ external'[key] = external[key]]_vars

(***************************************************************************)
(* The order of the steps of execute_workflow                              *)
(***************************************************************************)
\* C22: the start notification of an accepted call is emitted only after
\* workflow.initialize has been called and has succeeded: once the notification is
\* in the log, the call is past initialize and no required param was missing.
C22_StartNotifiedAfterInitialize ==
    \A c \in CallIds :
        (/\ calls[c].accepted
         /\ \E i \in 1..Len(added) :
                added[i].message = <<"Starting workflow", calls[c].workflow>>) =>
            /\ calls[c].pc # "initialize"
            /\ missing_params(calls[c].workflow, calls[c].params) = {}

(***************************************************************************)
(* The progress of the workflows                                           *)
(***************************************************************************)
\* C23: the batch reports the progress of an item only after the item has been
\* processed: whenever its last notification is the one of item k of total, exactly
\* k per-item records have been collected.
C23_ProgressAfterItem ==
    run.pc \in {"report", "process"} =>
        LET reported == added[Len(added)]
        IN  reported.message[1] = "Processing item" =>
                /\ reported.progress = (reported.message[2] * 100) \div Len(run.items)
                /\ Len(run.results) = reported.message[2]

\* the agent's notification that a call was accepted
IsStart(activity) ==
    /\ activity.type = "agent_progress"
    /\ activity.message[1] = "Starting workflow"

\* a notification that a workflow's execute emitted through the callback it was given
IsWorkflowProgress(activity) ==
    /\ activity.type = "agent_progress"
    /\ activity.message[1] \notin {"Starting workflow", "Workflow completed",
                                    "Workflow failed"}

\* the progress values that the execute of the call accepted last has emitted
OwnProgress ==
    LET start == CHOOSE i \in 1..Len(added) :
                    IsStart(added[i]) /\ \A j \in (i + 1)..Len(added) : ~IsStart(added[j])
        own == SelectSeq(SubSeq(added, start + 1, Len(added)), IsWorkflowProgress)
    IN  [i \in 1..Len(own) |-> own[i].progress]

IsPrefix(p, q) ==
    Len(p) <= Len(q) /\ \A i \in 1..Len(p) : p[i] = q[i]

\* the script improvement of call c has begun its stages, or has returned a
\* successful result that the agent has still to report
ScriptImprovementAt(c) ==
    /\ calls[c].workflow = "script_improvement"
    /\ \/ run.pc # "none" /\ run.call = c
       \/ calls[c].pc = "returned" /\ calls[c].result.success

\* C24 as stated: a successful script improvement emits exactly the progress values
\* 0.2, 0.6, 0.8 (with auto_apply only) and 1.0, in that order.
C24_FourStages ==
    \A c \in CallIds :
        ScriptImprovementAt(c) =>
            LET stages == IF ParamOr(calls[c].params, "auto_apply", FALSE)
                          THEN <<20, 60, 80, 100>> ELSE <<20, 60, 100>>
            IN  /\ IsPrefix(OwnProgress, stages)
                /\ calls[c].pc = "returned" => OwnProgress = stages

\* C24, amended: a successful script improvement emits exactly the progress values
\* 0.2, 0.4, 0.6, then 0.8 and 1.0 with auto_apply and 1.0 alone without, in that
\* order; at any time the values emitted are a prefix of that sequence, which is
\* non-decreasing, within [0,1] and ends at 1.0.
C24_ProgressStages ==
    \A c \in CallIds :
        ScriptImprovementAt(c) =>
            LET stages == IF ParamOr(calls[c].params, "auto_apply", FALSE)
                          THEN <<20, 40, 60, 80, 100>> ELSE <<20, 40, 60, 100>>
            IN  /\ IsPrefix(OwnProgress, stages)
                /\ calls[c].pc = "returned" => OwnProgress = stages

\* a script improvement with auto_apply has returned its successful result after
\* the five notifications
C24_Witness ==
    \E c \in CallIds :
        /\ calls[c].workflow = "script_improvement"
        /\ calls[c].pc = "returned"
        /\ calls[c].result.success
        /\ calls[c].result.data.auto_applied
        /\ OwnProgress = <<20, 40, 60, 80, 100>>

(***************************************************************************)
(* The execution history                                                   *)
(***************************************************************************)
\* the step takes call c on from the return of its workflow's execute
ResultTaken(c) ==
    calls[c].pc = "returned" /\ calls'[c].pc # "returned"

C21_HistoryWithinCap ==
    Len(execution_history) <= MaxActivities

(***************************************************************************)
(* The recent entries                                                      *)
(***************************************************************************)
\* the last min(count, n) entries of a list of n entries, in their order
Recent(list, count) ==
    SubSeq(list, Len(list) - Min(count, Len(list)) + 1, Len(list))

\* the entries of the log that have the type asked for, in their order
OfActivityType(log, activity_type) ==
    LET Asked(activity) == activity_type = None \/ activity.type = activity_type
    IN  SelectSeq(log, Asked)

\* C27: for every count >= 0, get_recent_activities, get_chat_context and
\* get_execution_history return exactly the last min(count, n) entries of the
\* list (filtered by type, where a type is given) in their order, so none for
\* count = 0, and they leave the list unchanged.
C27_GettersReturnRecentEntries ==
    [][/\ last'.op = "get_recent_activities" =>
            /\ last'.ret = Recent(OfActivityType(activities, last'.activity_type),
                                  last'.count)
            /\ activities' = activities
       /\ last'.op = "get_chat_context" =>
            /\ last'.ret = Recent(chat_history, last'.count)
            /\ chat_history' = chat_history
       /\ last'.op = "get_execution_history" =>
            /\ last'.ret = Recent(execution_history, last'.count)
            /\ execution_history' = execution_history]_vars

====
